---- MODULE Spec2Model ----
(***************************************************************************)
(* Model of the jPulse auth-mfa plugin: the MFA data model                 *)
(* (plugins/auth-mfa/webapp/model/mfaAuth.js) and the MFA controller       *)
(* (plugins/auth-mfa/webapp/controller/mfaAuth.js).                        *)
(*                                                                         *)
(* One user is modelled.  The user's mfa document in the user store is the *)
(* variable mfa; UserModel.findById and UserModel.updateById are atomic    *)
(* reads and writes of it.  Every request handler is an async function: it *)
(* runs atomically between two awaits on the store, and handlers of        *)
(* different requests interleave at those awaits.  proc[p] holds the       *)
(* position and the local variables of the request in slot p.              *)
(*                                                                         *)
(* The plugin's configuration does not define auth-mfa.allowUserDisable,   *)
(* the switch of the user card's 'disable' action: it is off except in     *)
(* SpecPolicy, which takes both values.                                    *)
(*                                                                         *)
(* Time is counted in ticks of one TOTP step (30 s).  Optional dates are   *)
(* <<>> (null) or <<t>>.  Strings that are inspected character by          *)
(* character (backup codes) are sequences of one-character strings; a      *)
(* plaintext handed to encrypt is a sequence of UTF-16 code units.         *)
(***************************************************************************)
EXTENDS Integers, Sequences, FiniteSets, TLC

\* ------------------------------------------------------------------ bounds
MaxTime == 3                \* the clock stops ticking here
MaxGen == 2                 \* number of backup-code sets ever generated
MaxAttempts == 3            \* failedAttempts is not driven beyond this
MaxText == 2                \* length of the plaintexts encrypt is tried on

\* ---------------------------------------------- configuration (scaled down)
maxFailedAttempts == 2      \* config.maxFailedAttempts
lockoutDuration == 1        \* config.lockoutDuration, minutes
backupCodeCount == 2        \* config.backupCodeCount
TicksPerMinute == 2         \* 60 s / 30 s TOTP step
NoSecret == <<>>            \* '' / undefined plaintext secret

Procs == {1, 2}             \* request slots
Sessions == {1, 2}          \* login sessions (req.session)
Secrets == {<<"A">>, <<"B">>} \* values authenticator.generateSecret() yields
AppSecrets == {1, 2}        \* values of appConfig.security.sessionSecret
IVs == {1}                  \* crypto.randomBytes(16)
Policies == {"optional", "required-for-roles", "required"}
UnknownPolicy == "off"      \* a mfaPolicy value the code does not know
requiredRoles == {"root"}   \* config.requiredRoles

Null == <<>>
Date(t) == <<t>>
NoCode == <<>>

VARIABLES
    now,          \* Date.now(), in ticks
    mfa,          \* the user's mfa document in the user store
    roles,        \* user.roles
    config,       \* configuration: [mfaPolicy, allowUserDisable]
    appSecret,    \* global.appConfig.security.sessionSecret
    session,      \* session[s] = req.session.mfaPendingSecret of session s
    pendingAuth,  \* a login is waiting for its 'mfa' step
    proc,         \* request slots
    response,     \* the response sent in the last step, if any
    gen,          \* number of backup-code sets generated so far
    track,        \* whether the history variables are recorded (fixed by Init)
    atomicFA,     \* history: failures recorded since the last counter reset
    resetRaced,   \* history: the last counter reset overlapped a recordFailure
    failedKinds,  \* history: the kinds of step that failed since that reset
    trackKinds,   \* whether failedKinds and returned are kept
    vault,        \* encrypt and decrypt called directly: their arguments and
                  \* results (used by SpecCrypto only)
    accepts,      \* history: accepts[h] = times a code with hash h was accepted
                  \* since the stored set of codes was last replaced
    issued,       \* history: the set of codes handed out last, and by what
    returned,     \* history: the lists of plain backup codes sent in responses
    superseded    \* history: <<s, secret>> for a pending secret of session s
                  \* that a later setup in s replaced by another secret

vars == <<now, mfa, roles, config, appSecret, session, pendingAuth, proc,
          response, gen, track, atomicFA, resetRaced, failedKinds,
          trackKinds, vault, accepts, issued, returned, superseded>>

\* ------------------------------------------------------------- encryption
GetEncryptionKey(secret) == <<"scrypt", secret, "mfa-salt">>

\* aes-256-gcm: the ciphertext and the tag are functions of key, iv, plaintext
GcmCipher(key, iv, text) == <<"ct", key, iv, text>>
GcmTag(key, iv, text) == <<"tag", key, iv, text>>

\* the code units plaintexts are made of: two letters, a high and a low
\* surrogate (together one character outside the BMP), and U+FFFD
Ascii == {"A", "B"}
HighSurrogate == "D83D"
LowSurrogate == "DE00"
Replacement == "FFFD"
CodeUnits == Ascii \cup {HighSurrogate, LowSurrogate, Replacement}

\* the bytes of a string written as 'utf8': a surrogate pair is one
\* four-byte character, a surrogate without its partner is written as U+FFFD
RECURSIVE Utf8Encode(_)
Utf8Encode(text) ==
    IF text = <<>> THEN <<>>
    ELSE IF /\ Len(text) >= 2
            /\ text[1] = HighSurrogate
            /\ text[2] = LowSurrogate
    THEN <<"F0", "9F", "98", "80">> \o Utf8Encode(Tail(Tail(text)))
    ELSE IF Head(text) \in Ascii
    THEN <<Head(text)>> \o Utf8Encode(Tail(text))
    ELSE <<"EF", "BF", "BD">> \o Utf8Encode(Tail(text))

\* the string read from bytes as 'utf8': a byte that begins no character is
\* read as U+FFFD
RECURSIVE Utf8Decode(_)
Utf8Decode(bytes) ==
    IF bytes = <<>> THEN <<>>
    ELSE IF Len(bytes) >= 4 /\ SubSeq(bytes, 1, 4) = <<"F0", "9F", "98", "80">>
    THEN <<HighSurrogate, LowSurrogate>> \o Utf8Decode(SubSeq(bytes, 5, Len(bytes)))
    ELSE IF Len(bytes) >= 3 /\ SubSeq(bytes, 1, 3) = <<"EF", "BF", "BD">>
    THEN <<Replacement>> \o Utf8Decode(SubSeq(bytes, 4, Len(bytes)))
    ELSE IF Head(bytes) \in Ascii
    THEN <<Head(bytes)>> \o Utf8Decode(Tail(bytes))
    ELSE <<Replacement>> \o Utf8Decode(Tail(bytes))

\* an encrypt that writes the text as 'ascii' (one byte for each code unit)
encrypt_Ascii(text, iv, secret) ==
    IF text = NoSecret THEN <<>>
    ELSE LET key == GetEncryptionKey(secret)
             bytes == [i \in 1..Len(text) |->
                          IF text[i] \in Ascii THEN text[i] ELSE "3F"]
         IN <<iv, GcmTag(key, iv, bytes), GcmCipher(key, iv, bytes)>>

\* iv ++ authTag ++ encrypted; '' for empty text
encrypt(text, iv, secret) ==
    IF text = NoSecret THEN <<>>
    ELSE LET key == GetEncryptionKey(secret)
             bytes == Utf8Encode(text)
         IN <<iv, GcmTag(key, iv, bytes), GcmCipher(key, iv, bytes)>>

\* a decrypt that does not verify the tag
decrypt_Unauthenticated(encryptedText, secret) ==
    IF encryptedText = <<>> THEN NoSecret
    ELSE IF Len(encryptedText) < 3 THEN NoSecret
    ELSE LET key == GetEncryptionKey(secret)
             iv == encryptedText[1]
             encrypted == encryptedText[3]
         IN IF encrypted[2] = key /\ encrypted[3] = iv
            THEN Utf8Decode(encrypted[4])
            ELSE <<Replacement>>

\* '' for empty input and for any failure (the catch block): data too short
\* to hold the iv, a tag and the encrypted bytes, or a tag that does not
\* verify
decrypt(encryptedText, secret) ==
    IF encryptedText = <<>> THEN NoSecret
    ELSE IF Len(encryptedText) < 3 THEN NoSecret
    ELSE LET key == GetEncryptionKey(secret)
             iv == encryptedText[1]
             authTag == encryptedText[2]
             encrypted == encryptedText[3]
         IN IF /\ encrypted[2] = key
               /\ encrypted[3] = iv
               /\ authTag = GcmTag(key, iv, encrypted[4])
            THEN Utf8Decode(encrypted[4])
            ELSE NoSecret

getDecryptedSecret(user, secret) ==
    IF user.secret = <<>> THEN NoSecret ELSE decrypt(user.secret, secret)

\* ------------------------------------------------------------------- TOTP
\* the token an authenticator app shows for a secret at time step t
Totp(secret, t) == <<secret, t>>

\* otplib authenticator.verify, default window: previous, current, next step
AuthenticatorVerify(token, secret, t) ==
    /\ token # NoCode
    /\ token[1] = secret
    /\ token[2] \in {t - 1, t, t + 1}

\* ----------------------------------------------------------- backup codes
Hex == <<"A", "B", "C", "D", "E", "F">>
Lower == [a |-> "A", b |-> "B", c |-> "C", d |-> "D", e |-> "E", f |-> "F"]

ToUpperCase(s) ==
    [i \in 1..Len(s) |-> IF s[i] \in DOMAIN Lower THEN Lower[s[i]] ELSE s[i]]

RECURSIVE Remove(_, _)
Remove(s, chars) ==
    IF s = <<>> THEN <<>>
    ELSE IF Head(s) \in chars THEN Remove(Tail(s), chars)
         ELSE <<Head(s)>> \o Remove(Tail(s), chars)

\* sha256(code.replace(/-/g, '').toUpperCase() + 'mfa-backup-salt')
hashBackupCode(code) ==
    <<"sha256", ToUpperCase(Remove(code, {"-"})), "mfa-backup-salt">>

\* the i-th code of the g-th generated set: two random groups joined by '-'
RandomCode(g, i) == <<Hex[g], "-", Hex[i]>>

\* a loop that stops one code short
generateBackupCodes_Short(count, g) ==
    LET codes == [i \in 1..(count - 1) |-> RandomCode(g, i)]
    IN [codes |-> codes,
        hashes |-> [i \in 1..(count - 1) |-> hashBackupCode(codes[i])]]

generateBackupCodes(count, g) ==
    LET codes == [i \in 1..count |-> RandomCode(g, i)]
    IN [codes |-> codes,
        hashes |-> [i \in 1..count |-> hashBackupCode(codes[i])]]

\* index of the first matching hash (1-based), 0 for the code's -1
verifyBackupCode(code, hashes) ==
    LET inputHash == hashBackupCode(code)
        hits == {i \in 1..Len(hashes) : hashes[i] = inputHash}
    IN IF hits = {} THEN 0
       ELSE CHOOSE i \in hits : \A j \in hits : i <= j

\* hashes.splice(index): everything from index on is removed
Splice_ToEnd(hashes, index) == SubSeq(hashes, 1, index - 1)

\* hashes.splice(index, 1)
Splice(hashes, index) ==
    [i \in 1..(Len(hashes) - 1) |->
        IF i < index THEN hashes[i] ELSE hashes[i + 1]]

\* code.toString().replace(/[\s-]/g, '').toUpperCase()
CleanBackupCode(code) == ToUpperCase(Remove(code, {" ", "-"}))

AllCodes == {RandomCode(g, i) : g \in 1..MaxGen, i \in 1..backupCodeCount}
BogusCode == <<"F", "-", "F">>
AllHashes == {hashBackupCode(c) : c \in AllCodes \cup {BogusCode}}

\* ---------------------------------------------------------------- lockout
\* minutes rounded down
CeilDiv_Floor(a, b) == a \div b

\* Math.ceil(remainingMs / 60000)
CeilDiv(a, b) == (a + b - 1) \div b

\* the comparison with the lock date the other way round
isLocked_Reversed(user, t) ==
    IF user.lockedUntil = Null THEN [locked |-> FALSE, remainingMinutes |-> 0]
    ELSE IF t < user.lockedUntil[1]
         THEN [locked |-> FALSE, remainingMinutes |-> 0]
         ELSE [locked |-> TRUE, remainingMinutes |-> 0]

\* a lock that time does not lift
isLocked_Sticky(user, t) ==
    IF user.lockedUntil = Null THEN [locked |-> FALSE, remainingMinutes |-> 0]
    ELSE [locked |-> TRUE,
          remainingMinutes |-> CeilDiv(user.lockedUntil[1] - t, TicksPerMinute)]

\* a lock that still holds at the instant lockedUntil
isLocked_Inclusive(user, t) ==
    IF user.lockedUntil = Null THEN [locked |-> FALSE, remainingMinutes |-> 0]
    ELSE IF t > user.lockedUntil[1]
         THEN [locked |-> FALSE, remainingMinutes |-> 0]
         ELSE [locked |-> TRUE,
               remainingMinutes |-> CeilDiv(user.lockedUntil[1] - t, TicksPerMinute)]

\* isLocked(user): remainingMinutes is 0 when not locked (absent in the code)
isLocked(user, t) ==
    IF user.lockedUntil = Null THEN [locked |-> FALSE, remainingMinutes |-> 0]
    ELSE IF t >= user.lockedUntil[1]
         THEN [locked |-> FALSE, remainingMinutes |-> 0]
         ELSE [locked |-> TRUE,
               remainingMinutes |-> CeilDiv(user.lockedUntil[1] - t, TicksPerMinute)]

\* ----------------------------------------------------------------- policy
\* a grace period that still holds at its last instant
InGrace_Inclusive(user, t) ==
    /\ user.gracePeriodUntil # Null
    /\ t <= user.gracePeriodUntil[1]

InGrace(user, t) ==
    /\ user.gracePeriodUntil # Null
    /\ t < user.gracePeriodUntil[1]

\* the grace period looked at before the enabled flag
isMfaRequired_GraceFirst(user, userRoles, cfg, t) ==
    IF cfg.mfaPolicy = "required" /\ InGrace(user, t)
    THEN [required |-> FALSE, reason |-> "grace-period"]
    ELSE IF user.enabled THEN [required |-> TRUE, reason |-> "enabled"]
    ELSE IF cfg.mfaPolicy = "required"
         THEN [required |-> TRUE, reason |-> "policy-required"]
    ELSE IF cfg.mfaPolicy = "required-for-roles"
         THEN IF userRoles \cap requiredRoles # {}
              THEN IF InGrace(user, t)
                   THEN [required |-> FALSE, reason |-> "grace-period"]
                   ELSE [required |-> TRUE, reason |-> "role-required"]
              ELSE [required |-> FALSE, reason |-> "optional"]
    ELSE [required |-> FALSE, reason |-> "optional"]

\* every() for some(): all of the user's roles must be required roles
isMfaRequired_EveryRole(user, userRoles, cfg, t) ==
    IF user.enabled THEN [required |-> TRUE, reason |-> "enabled"]
    ELSE IF cfg.mfaPolicy = "required"
         THEN IF InGrace(user, t)
              THEN [required |-> FALSE, reason |-> "grace-period"]
              ELSE [required |-> TRUE, reason |-> "policy-required"]
    ELSE IF cfg.mfaPolicy = "required-for-roles"
         THEN IF userRoles \subseteq requiredRoles
              THEN IF InGrace(user, t)
                   THEN [required |-> FALSE, reason |-> "grace-period"]
                   ELSE [required |-> TRUE, reason |-> "role-required"]
              ELSE [required |-> FALSE, reason |-> "optional"]
    ELSE [required |-> FALSE, reason |-> "optional"]

\* a switch whose default falls through to 'required'
isMfaRequired_DefaultRequired(user, userRoles, cfg, t) ==
    IF user.enabled THEN [required |-> TRUE, reason |-> "enabled"]
    ELSE IF cfg.mfaPolicy = "required-for-roles"
         THEN IF userRoles \cap requiredRoles # {}
              THEN IF InGrace(user, t)
                   THEN [required |-> FALSE, reason |-> "grace-period"]
                   ELSE [required |-> TRUE, reason |-> "role-required"]
              ELSE [required |-> FALSE, reason |-> "optional"]
    ELSE IF cfg.mfaPolicy = "optional"
         THEN [required |-> FALSE, reason |-> "optional"]
    ELSE IF InGrace(user, t)
         THEN [required |-> FALSE, reason |-> "grace-period"]
         ELSE [required |-> TRUE, reason |-> "policy-required"]

isMfaRequired(user, userRoles, cfg, t) ==
    IF user.enabled THEN [required |-> TRUE, reason |-> "enabled"]
    ELSE IF cfg.mfaPolicy = "required"
         THEN IF InGrace(user, t)
              THEN [required |-> FALSE, reason |-> "grace-period"]
              ELSE [required |-> TRUE, reason |-> "policy-required"]
    ELSE IF cfg.mfaPolicy = "required-for-roles"
         THEN IF userRoles \cap requiredRoles # {}
              THEN IF InGrace(user, t)
                   THEN [required |-> FALSE, reason |-> "grace-period"]
                   ELSE [required |-> TRUE, reason |-> "role-required"]
              ELSE [required |-> FALSE, reason |-> "optional"]
    ELSE [required |-> FALSE, reason |-> "optional"]

\* ------------------------------------------------------------ user store
\* schema defaults of the mfa document (registerSchemaExtension)
DefaultMfa(grace) ==
    [enabled |-> FALSE, method |-> "totp", secret |-> <<>>,
     backupCodes |-> <<>>, enrolledAt |-> Null, lastUsedAt |-> Null,
     failedAttempts |-> 0, lockedUntil |-> Null, gracePeriodUntil |-> grace]

\* UserModel.updateById(userId, updates): one atomic update of the named fields
updateById(doc, updates) ==
    [f \in DOMAIN doc |-> IF f \in DOMAIN updates THEN updates[f] ELSE doc[f]]

\* the fields of the user object (req.user / context.user) a handler reads
Reads(op) ==
    CASE op = "validate" -> {"lockedUntil", "secret"}
      [] op = "setup" -> {"enabled"}
      [] op = "disable" -> {"enabled", "gracePeriodUntil"}
      [] op = "backup-codes" -> {"enabled"}
      [] op = "status" -> {"enabled", "gracePeriodUntil"}
      [] OTHER -> {}

\* the user object handed to the handler of op, cut down to what it reads
Snapshot(doc, op) ==
    [f \in {"enabled", "secret", "lockedUntil", "gracePeriodUntil"} |->
        IF f \in Reads(op) THEN doc[f] ELSE DefaultMfa(Null)[f]]

\* an optional boolean: a && b of the code is a (null) when a is null
Bool(b) == <<b>>

\* getUserMfaStatus, from the user findById returns, at time t
getUserMfaStatus(doc, t) ==
    [exists |-> TRUE,
     enabled |-> doc.enabled,
     method |-> doc.method,
     enrolledAt |-> doc.enrolledAt,
     lastUsedAt |-> doc.lastUsedAt,
     hasBackupCodes |-> Len(doc.backupCodes) > 0,
     backupCodesCount |-> Len(doc.backupCodes),
     isLocked |-> IF doc.lockedUntil = Null THEN Null
                  ELSE Bool(t < doc.lockedUntil[1]),
     lockedUntil |-> doc.lockedUntil,
     failedAttempts |-> doc.failedAttempts]

\* enableMfa: the fields written
EnableMfaUpdates(blob, hashes, t) ==
    [enabled |-> TRUE, method |-> "totp", secret |-> blob,
     backupCodes |-> hashes, enrolledAt |-> Date(t),
     failedAttempts |-> 0, lockedUntil |-> Null]

\* a disable that keeps the encrypted secret
DisableMfaUpdates_KeepSecret ==
    [enabled |-> FALSE, backupCodes |-> <<>>,
     enrolledAt |-> Null, failedAttempts |-> 0, lockedUntil |-> Null]

\* disableMfa: the fields written
DisableMfaUpdates ==
    [enabled |-> FALSE, secret |-> <<>>, backupCodes |-> <<>>,
     enrolledAt |-> Null, failedAttempts |-> 0, lockedUntil |-> Null]

\* recordSuccess: the fields written
RecordSuccessUpdates(t) ==
    [lastUsedAt |-> Date(t), failedAttempts |-> 0, lockedUntil |-> Null]

\* a lock that comes one failure late
RecordFailureResult_Late(failedAttempts, t) ==
    LET currentAttempts == failedAttempts + 1
    IN IF currentAttempts > maxFailedAttempts
       THEN [locked |-> TRUE,
             lockedUntil |-> Date(t + lockoutDuration * TicksPerMinute),
             attempts |-> currentAttempts]
       ELSE [locked |-> FALSE, lockedUntil |-> Null,
             attempts |-> currentAttempts]

\* a lock set only by the failure that reaches the threshold exactly
RecordFailureResult_Exact(failedAttempts, t) ==
    LET currentAttempts == failedAttempts + 1
    IN IF currentAttempts = maxFailedAttempts
       THEN [locked |-> TRUE,
             lockedUntil |-> Date(t + lockoutDuration * TicksPerMinute),
             attempts |-> currentAttempts]
       ELSE [locked |-> FALSE, lockedUntil |-> Null,
             attempts |-> currentAttempts]

\* recordFailure, from the user it read: the value it returns
RecordFailureResult(failedAttempts, t) ==
    LET currentAttempts == failedAttempts + 1
    IN IF currentAttempts >= maxFailedAttempts
       THEN [locked |-> TRUE,
             lockedUntil |-> Date(t + lockoutDuration * TicksPerMinute),
             attempts |-> currentAttempts]
       ELSE [locked |-> FALSE, lockedUntil |-> Null,
             attempts |-> currentAttempts]

\* recordFailure: the fields written (lockedUntil only when locking)
RecordFailureUpdates(r) ==
    IF r.locked
    THEN [failedAttempts |-> r.attempts, lockedUntil |-> r.lockedUntil]
    ELSE [failedAttempts |-> r.attempts]

\* useBackupCode: the fields written
UseBackupCodeUpdates(hashes, t) ==
    [backupCodes |-> hashes, lastUsedAt |-> Date(t),
     failedAttempts |-> 0, lockedUntil |-> Null]

\* a regeneration that also writes enabled
RegenerateUpdates_Enabling(hashes) == [enabled |-> TRUE, backupCodes |-> hashes]

\* regenerateBackupCodes: the fields written
RegenerateUpdates(hashes) == [backupCodes |-> hashes]

\* adminCard action 'reset': setFields
AdminResetFields ==
    [enabled |-> FALSE, secret |-> <<>>, backupCodes |-> <<>>,
     enrolledAt |-> Null, failedAttempts |-> 0, lockedUntil |-> Null]

\* userCard action 'disable': setFields
UserCardDisableFields ==
    [enabled |-> FALSE, secret |-> <<>>, backupCodes |-> <<>>,
     enrolledAt |-> Null]

\* adminCard action 'unlock': setFields
AdminUnlockFields == [failedAttempts |-> 0, lockedUntil |-> Null]

\* --------------------------------------------------------- request slots
NoRf == [locked |-> FALSE, lockedUntil |-> Null, attempts |-> 0]

Idle ==
    [pc |-> "idle", op |-> "none", sess |-> 0, step |-> "none",
     code |-> NoCode, password |-> "none",
     user |-> Snapshot(DefaultMfa(Null), "none"),
     blob |-> <<>>, hashes |-> <<>>, codes |-> <<>>, set |-> 0, rf |-> NoRf]

\* what a response carries: the request and the code it answers (while the
\* handler still holds the code), context.valid / success, context.error / error,
\* the minutes of a lock message, data.secret, data.backupCodes, and the
\* value recordFailure returned to the handler, and the data of apiStatus
\* (the status and policyRequired / policyReason); for the login hooks, the
\* steps pushed to requiredSteps with the data of the 'mfa' step, and the
\* type of the warning pushed to warnings
NoStatus == [exists |-> FALSE]
NoPolicy == [required |-> FALSE, reason |-> ""]
NoStepData == [isLocked |-> FALSE, lockoutMinutes |-> 0]

NoResponse ==
    [op |-> "none", code |-> NoCode, valid |-> FALSE, error |-> "",
     minutes |-> 0, secret |-> NoSecret, codes |-> <<>>, rf |-> NoRf,
     status |-> NoStatus, policy |-> NoPolicy,
     steps |-> {}, stepData |-> NoStepData, warning |-> "none"]

Free(p) == proc[p].pc = "idle"
InFlight(op) == Cardinality({q \in Procs : proc[q].op = op})

\* a request is served in the first free slot
Available(p) == Free(p) /\ \A q \in Procs : q < p => ~Free(q)

\* a request arrives: the host loads the user and hands it to the handler
Arrive(p, fields) ==
    /\ proc' = [proc EXCEPT ![p] =
        [f \in DOMAIN Idle |->
            IF f \in DOMAIN fields THEN fields[f]
            ELSE IF f = "pc" THEN "loaded"
            ELSE IF f = "user" THEN Snapshot(mfa, fields.op)
            ELSE Idle[f]]]
    /\ response' = NoResponse
    /\ UNCHANGED returned

\* the handler returns: its locals are gone, the response is sent
Respond(p, valid, error, fields) ==
    /\ proc' = [proc EXCEPT ![p] = Idle]
    /\ response' =
        [f \in DOMAIN NoResponse |->
            IF f \in DOMAIN fields THEN fields[f]
            ELSE IF f = "op" THEN proc[p].op
            ELSE IF f = "code" THEN proc[p].code
            ELSE IF f = "valid" THEN valid
            ELSE IF f = "error" THEN error
            ELSE NoResponse[f]]
    /\ returned' = IF trackKinds /\ response'.codes # <<>>
                   THEN returned \cup {response'.codes} ELSE returned

\* the handler reaches its next await: the locals it still reads are kept
Goto(p, pc, fields) ==
    /\ proc' = [proc EXCEPT ![p] =
        [f \in DOMAIN Idle |->
            IF f \in DOMAIN fields THEN fields[f]
            ELSE IF f = "pc" THEN pc
            ELSE IF f \in {"op", "sess", "step"} THEN proc[p][f]
            ELSE Idle[f]]]
    /\ response' = NoResponse
    /\ UNCHANGED returned

\* ------------------------------------------------------- history variables
\* a write that sets failedAttempts to 0
CounterReset ==
    /\ atomicFA' = 0
    /\ failedKinds' = {}
    /\ resetRaced' = (track /\ \E q \in Procs : proc[q].pc = "rf_update")

\* a write of recordFailure
CounterIncrement ==
    /\ atomicFA' = IF track THEN atomicFA + 1 ELSE atomicFA
    /\ UNCHANGED resetRaced

\* recordFailure's write, made for a step of the given kind
KindFailed(step) ==
    failedKinds' = IF trackKinds THEN failedKinds \cup {step} ELSE failedKinds

NoCounterChange == UNCHANGED <<atomicFA, resetRaced, failedKinds>>

NoAccepts == [h \in AllHashes |-> 0]

NoneIssued == [set |-> 0, by |-> "none"]

\* a write that replaces the stored set of backup codes by set number n
\* (0: by no codes), handed out by the operation by
CodesReplaced(n, by) ==
    /\ accepts' = NoAccepts
    /\ issued' = IF track THEN [set |-> n, by |-> by] ELSE issued

\* useBackupCode returns true for a code with hash h
CodeAccepted(h) ==
    /\ accepts' = IF track /\ accepts[h] < 2
                  THEN [accepts EXCEPT ![h] = @ + 1] ELSE accepts
    /\ UNCHANGED issued

\* the pending secret of session s is replaced by secret
Superseded(s, secret) ==
    superseded' = IF track /\ session[s] \notin {NoSecret, secret}
                  THEN superseded \cup {<<s, session[s]>>} ELSE superseded

\* encrypt and decrypt not called directly
NoVault ==
    [text |-> <<>>, blob |-> <<>>, plain |-> <<>>, key |-> 0, under |-> 0,
     intact |-> TRUE, did |-> "off"]

Env == <<roles, config, track, trackKinds, vault, superseded>>

\* ------------------------------------------------------------ verification
\* a hook that leaves the step out while the user is locked
OnAuthGetSteps_UnlessLocked ==
    /\ LET lockStatus == isLocked(mfa, now)
       IN IF mfa.enabled /\ ~lockStatus.locked
          THEN /\ pendingAuth' = TRUE
               /\ response' = [NoResponse EXCEPT
                     !.op = "get-steps", !.steps = {"mfa"},
                     !.stepData = [isLocked |-> lockStatus.locked,
                                   lockoutMinutes |-> lockStatus.remainingMinutes]]
          ELSE /\ UNCHANGED pendingAuth
               /\ response' = [NoResponse EXCEPT !.op = "get-steps"]
    /\ UNCHANGED <<now, mfa, appSecret, session, proc, gen, accepts, issued,
                   returned, Env>>
    /\ NoCounterChange

\* onAuthGetSteps, called by the host when the password of a login was
\* accepted: the 'mfa' step is pushed for a user with mfa.enabled, and the
\* login then waits for that step (beside the logins that wait already)
OnAuthGetSteps ==
    /\ LET lockStatus == isLocked(mfa, now)
       IN IF mfa.enabled
          THEN /\ pendingAuth' = TRUE
               /\ response' = [NoResponse EXCEPT
                     !.op = "get-steps", !.steps = {"mfa"},
                     !.stepData = [isLocked |-> lockStatus.locked,
                                   lockoutMinutes |-> lockStatus.remainingMinutes]]
          ELSE /\ UNCHANGED pendingAuth
               /\ response' = [NoResponse EXCEPT !.op = "get-steps"]
    /\ UNCHANGED <<now, mfa, appSecret, session, proc, gen, accepts, issued,
                   returned, Env>>
    /\ NoCounterChange

\* the warning onAuthGetWarnings pushes for a user
LoginWarning(user, userRoles, cfg, t) ==
    LET mfaRequired == isMfaRequired(user, userRoles, cfg, t)
    IN IF user.enabled THEN "none"
       ELSE IF mfaRequired.required THEN "mfa-not-enabled"
       ELSE IF mfaRequired.reason = "optional" THEN "mfa-recommended"
       ELSE "none"

\* onAuthGetWarnings, called by the host when no required step of the login
\* is left: none was pushed, or the 'mfa' step has just been answered as
\* valid; the login completes
OnAuthGetWarnings ==
    /\ \/ response.op = "get-steps" /\ response.steps = {}
       \/ response.op = "validate" /\ response.valid
    /\ pendingAuth' = FALSE
    /\ response' = [NoResponse EXCEPT
          !.op = "login", !.valid = TRUE,
          !.warning = LoginWarning(mfa, roles, config, now)]
    /\ UNCHANGED <<now, mfa, appSecret, session, proc, gen, accepts, issued,
                   returned, Env>>
    /\ NoCounterChange

\* what a client submits as a TOTP code: nothing, or what an authenticator
\* app shows now for some secret
TotpInputs == {NoCode} \cup {Totp(s, now) : s \in Secrets}

\* what a client submits as a backup code: nothing, a code never issued, or a
\* code of a set issued so far
BackupInputs ==
    {NoCode, BogusCode}
        \cup {RandomCode(g, i) : g \in 1..gen, i \in 1..backupCodeCount}

\* 'abcd-ef' for 'ABCD-EF'
ToLowerCase(s) ==
    [i \in 1..Len(s) |->
        IF \E c \in DOMAIN Lower : Lower[c] = s[i]
        THEN CHOOSE c \in DOMAIN Lower : Lower[c] = s[i]
        ELSE s[i]]

\* the text with every character a replaced by b
Replaced(s, a, b) == [i \in 1..Len(s) |-> IF s[i] = a THEN b ELSE s[i]]

\* the ways a client may type the backup code it was given: as given, in
\* lower case, without the separator, with a blank or a dot for the
\* separator, with a blank in front
Typed(code) ==
    {code, ToLowerCase(code), Remove(code, {"-"}), Replaced(code, "-", " "),
     Replaced(code, "-", "."), <<" ">> \o code}

\* what a client submits as a backup code when it types a code issued so far
TypedBackupInputs ==
    {NoCode} \cup UNION {Typed(RandomCode(g, i)) :
                            g \in 1..gen, i \in 1..backupCodeCount}

\* onAuthValidateStep called for a step of another plugin: the context is
\* returned as it came
OnAuthValidateOtherStep ==
    /\ pendingAuth
    /\ response' = [NoResponse EXCEPT !.op = "other-step"]
    /\ UNCHANGED <<now, mfa, appSecret, session, pendingAuth, proc, gen, accepts,
                   issued, returned, Env>>
    /\ NoCounterChange

\* onAuthValidateStep called with a code and without a user
OnAuthValidateNoUser ==
    /\ pendingAuth
    /\ response' = [NoResponse EXCEPT !.op = "validate", !.error = "User not found"]
    /\ UNCHANGED <<now, mfa, appSecret, session, pendingAuth, proc, gen, accepts,
                   issued, returned, Env>>
    /\ NoCounterChange

\* the host calls onAuthValidateStep for a pending login
BeginValidate(p, step, code) ==
    /\ Available(p)
    /\ pendingAuth
    /\ mfa.failedAttempts + InFlight("validate") < MaxAttempts
    /\ Arrive(p, [op |-> "validate", step |-> step, code |-> code])
    /\ UNCHANGED <<now, mfa, appSecret, session, pendingAuth, gen, accepts, issued, Env>>
    /\ NoCounterChange

\* a handler that looks at the lock only for the 'mfa' step
OnAuthValidateStep_BackupUnlocked(p) ==
    /\ proc[p].pc = "loaded"
    /\ proc[p].op = "validate"
    /\ LET r == proc[p]
           lockStatus == isLocked(r.user, now)
           secret == getDecryptedSecret(r.user, appSecret)
       IN IF r.code = NoCode
          THEN Respond(p, FALSE,
                       IF r.step = "mfa" THEN "MFA code required"
                       ELSE "Backup code required", <<>>)
          ELSE IF r.step = "mfa-backup"
          THEN Goto(p, "ubc_find", [code |-> CleanBackupCode(r.code)])
          ELSE IF lockStatus.locked
          THEN Respond(p, FALSE, "Account is temporarily locked",
                       [minutes |-> lockStatus.remainingMinutes])
          ELSE IF secret = NoSecret
          THEN Respond(p, FALSE, "MFA not configured", <<>>)
          ELSE IF AuthenticatorVerify(r.code, secret, now)
          THEN Goto(p, "rs_update", <<>>)
          ELSE Goto(p, "rf_find", <<>>)
    /\ UNCHANGED <<now, mfa, appSecret, session, pendingAuth, gen, accepts, issued, Env>>
    /\ NoCounterChange

\* onAuthValidateStep up to its first await
OnAuthValidateStep(p) ==
    /\ proc[p].pc = "loaded"
    /\ proc[p].op = "validate"
    /\ LET r == proc[p]
           lockStatus == isLocked(r.user, now)
           secret == getDecryptedSecret(r.user, appSecret)
       IN IF r.code = NoCode
          THEN Respond(p, FALSE,
                       IF r.step = "mfa" THEN "MFA code required"
                       ELSE "Backup code required", <<>>)
          ELSE IF lockStatus.locked
          THEN Respond(p, FALSE, "Account is temporarily locked",
                       [minutes |-> lockStatus.remainingMinutes])
          ELSE IF r.step = "mfa-backup"
          THEN Goto(p, "ubc_find", [code |-> CleanBackupCode(r.code)])
          ELSE IF secret = NoSecret
          THEN Respond(p, FALSE, "MFA not configured", <<>>)
          ELSE IF AuthenticatorVerify(r.code, secret, now)
          THEN Goto(p, "rs_update", <<>>)
          ELSE Goto(p, "rf_find", <<>>)
    /\ UNCHANGED <<now, mfa, appSecret, session, pendingAuth, gen, accepts, issued, Env>>
    /\ NoCounterChange

\* a backup path that answers a wrong code without recordFailure
UseBackupCode_Find_Uncounted(p) ==
    /\ proc[p].pc = "ubc_find"
    /\ LET hashes == mfa.backupCodes
           index == verifyBackupCode(proc[p].code, hashes)
       IN IF index = 0
          THEN Respond(p, FALSE, "Invalid or already used backup code", <<>>)
          ELSE Goto(p, "ubc_update",
                    [code |-> proc[p].code, hashes |-> Splice(hashes, index)])
    /\ UNCHANGED <<now, mfa, appSecret, session, pendingAuth, gen, accepts, issued, Env>>
    /\ NoCounterChange

\* useBackupCode: findById, verifyBackupCode, splice
UseBackupCode_Find(p) ==
    /\ proc[p].pc = "ubc_find"
    /\ LET hashes == mfa.backupCodes
           index == verifyBackupCode(proc[p].code, hashes)
       IN IF index = 0
          THEN Goto(p, "rf_find", <<>>)
          ELSE Goto(p, "ubc_update",
                    [code |-> proc[p].code, hashes |-> Splice(hashes, index)])
    /\ UNCHANGED <<now, mfa, appSecret, session, pendingAuth, gen, accepts, issued, Env>>
    /\ NoCounterChange

\* useBackupCode: updateById, return true
UseBackupCode_Update(p) ==
    /\ proc[p].pc = "ubc_update"
    /\ mfa' = updateById(mfa, UseBackupCodeUpdates(proc[p].hashes, now))
    /\ CodeAccepted(hashBackupCode(proc[p].code))
    /\ Goto(p, "rs_update", <<>>)
    /\ CounterReset
    /\ UNCHANGED <<now, appSecret, session, pendingAuth, gen, Env>>

\* recordSuccess: updateById; the step is valid
RecordSuccess_Update(p) ==
    /\ proc[p].pc = "rs_update"
    /\ mfa' = updateById(mfa, RecordSuccessUpdates(now))
    /\ Respond(p, TRUE, "", <<>>)
    /\ CounterReset
    /\ UNCHANGED <<now, appSecret, session, pendingAuth, gen, accepts, issued, Env>>

\* recordFailure: findById, the new count and the lock decision
RecordFailure_Find(p) ==
    /\ proc[p].pc = "rf_find"
    /\ mfa.failedAttempts < MaxAttempts
    /\ Goto(p, "rf_update", [rf |-> RecordFailureResult(mfa.failedAttempts, now)])
    /\ UNCHANGED <<now, mfa, appSecret, session, pendingAuth, gen, accepts, issued, Env>>
    /\ NoCounterChange

\* recordFailure: updateById; the step is invalid
RecordFailure_Update(p) ==
    /\ proc[p].pc = "rf_update"
    /\ mfa' = updateById(mfa, RecordFailureUpdates(proc[p].rf))
    /\ Respond(p, FALSE,
               IF proc[p].step = "mfa" THEN "Invalid MFA code"
               ELSE "Invalid or already used backup code",
               [rf |-> proc[p].rf])
    /\ CounterIncrement
    /\ KindFailed(proc[p].step)
    /\ UNCHANGED <<now, appSecret, session, pendingAuth, gen, accepts, issued, Env>>

\* -------------------------------------------------------------- enrollment
\* POST /api/1/auth-mfa/setup arrives in session s
BeginSetup(p, s) ==
    /\ Available(p)
    /\ Arrive(p, [op |-> "setup", sess |-> s])
    /\ UNCHANGED <<now, mfa, appSecret, session, pendingAuth, gen, accepts, issued, Env>>
    /\ NoCounterChange

\* a setup that does not look at mfa.enabled
ApiSetup_Unchecked(p, secret) ==
    /\ proc[p].pc = "loaded"
    /\ proc[p].op = "setup"
    /\ session' = [session EXCEPT ![proc[p].sess] = secret]
    /\ Superseded(proc[p].sess, secret)
    /\ Respond(p, TRUE, "", [secret |-> secret])
    /\ UNCHANGED <<now, mfa, appSecret, pendingAuth, gen, accepts, issued, roles,
                   config, track, trackKinds, vault>>
    /\ NoCounterChange

\* a setup that keeps the secret already pending in the session
ApiSetup_KeepFirst(p, secret) ==
    /\ proc[p].pc = "loaded"
    /\ proc[p].op = "setup"
    /\ IF proc[p].user.enabled
       THEN /\ Respond(p, FALSE, "MFA is already enabled", <<>>)
            /\ UNCHANGED <<session, superseded>>
       ELSE /\ session' = [session EXCEPT ![proc[p].sess] =
                              IF @ = NoSecret THEN secret ELSE @]
            /\ UNCHANGED superseded
            /\ Respond(p, TRUE, "", [secret |-> secret])
    /\ UNCHANGED <<now, mfa, appSecret, pendingAuth, gen, accepts, issued, roles,
                   config, track, trackKinds, vault>>
    /\ NoCounterChange

\* apiSetup: a fresh secret is kept in the session, not in the profile
ApiSetup(p, secret) ==
    /\ proc[p].pc = "loaded"
    /\ proc[p].op = "setup"
    /\ IF proc[p].user.enabled
       THEN /\ Respond(p, FALSE, "MFA is already enabled", <<>>)
            /\ UNCHANGED <<session, superseded>>
       ELSE /\ session' = [session EXCEPT ![proc[p].sess] = secret]
            /\ Superseded(proc[p].sess, secret)
            /\ Respond(p, TRUE, "", [secret |-> secret])
    /\ UNCHANGED <<now, mfa, appSecret, pendingAuth, gen, accepts, issued, roles,
                   config, track, trackKinds, vault>>
    /\ NoCounterChange

\* POST /api/1/auth-mfa/verify-setup arrives in session s with a code
BeginVerifySetup(p, s, code) ==
    /\ Available(p)
    /\ gen + InFlight("verify-setup") + InFlight("backup-codes") < MaxGen
    /\ Arrive(p, [op |-> "verify-setup", sess |-> s, code |-> code])
    /\ UNCHANGED <<now, mfa, appSecret, session, pendingAuth, gen, accepts, issued, Env>>
    /\ NoCounterChange

\* apiVerifySetup up to the updateById of enableMfa
ApiVerifySetup(p) ==
    /\ proc[p].pc = "loaded"
    /\ proc[p].op = "verify-setup"
    /\ LET r == proc[p]
           secret == session[r.sess]
       IN IF r.code = NoCode
          THEN /\ Respond(p, FALSE, "Verification code is required", <<>>)
               /\ UNCHANGED gen
          ELSE IF secret = NoSecret
          THEN /\ Respond(p, FALSE, "No pending MFA setup", <<>>)
               /\ UNCHANGED gen
          ELSE IF ~AuthenticatorVerify(r.code, secret, now)
          THEN /\ Respond(p, FALSE, "Invalid verification code", <<>>)
               /\ UNCHANGED gen
          ELSE \E iv \in IVs :
               LET g == generateBackupCodes(backupCodeCount, gen + 1)
               IN /\ gen' = gen + 1
                  /\ Goto(p, "em_update",
                          [codes |-> g.codes, hashes |-> g.hashes,
                           set |-> gen + 1,
                           blob |-> encrypt(secret, iv, appSecret)])
    /\ UNCHANGED <<now, mfa, appSecret, session, pendingAuth, accepts, issued, Env>>
    /\ NoCounterChange

\* enableMfa: updateById
EnableMfa_Update(p) ==
    /\ proc[p].pc = "em_update"
    /\ mfa' = updateById(mfa, EnableMfaUpdates(proc[p].blob, proc[p].hashes, now))
    /\ Goto(p, "em_clear", [codes |-> proc[p].codes])
    /\ CounterReset
    /\ CodesReplaced(proc[p].set, "enable")
    /\ UNCHANGED <<now, appSecret, session, pendingAuth, gen, Env>>

\* a verify-setup that leaves the pending secret in the session
ApiVerifySetup_Clear_Keep(p) ==
    /\ proc[p].pc = "em_clear"
    /\ Respond(p, TRUE, "", [codes |-> proc[p].codes])
    /\ UNCHANGED <<now, mfa, appSecret, session, pendingAuth, gen, accepts, issued, Env>>
    /\ NoCounterChange

\* apiVerifySetup after enableMfa: the pending secret is deleted, the codes returned
ApiVerifySetup_Clear(p) ==
    /\ proc[p].pc = "em_clear"
    /\ session' = [session EXCEPT ![proc[p].sess] = NoSecret]
    /\ Respond(p, TRUE, "", [codes |-> proc[p].codes])
    /\ UNCHANGED <<now, mfa, appSecret, pendingAuth, gen, accepts, issued, Env>>
    /\ NoCounterChange

\* ----------------------------------------------------------------- disable
\* POST /api/1/auth-mfa/disable arrives with a password
BeginDisable(p, password) ==
    /\ Available(p)
    /\ Arrive(p, [op |-> "disable", password |-> password])
    /\ UNCHANGED <<now, mfa, appSecret, session, pendingAuth, gen, accepts, issued, Env>>
    /\ NoCounterChange

\* apiDisable up to the updateById of disableMfa
ApiDisable(p) ==
    /\ proc[p].pc = "loaded"
    /\ proc[p].op = "disable"
    /\ LET r == proc[p]
           mfaRequired == isMfaRequired(r.user, roles, config, now)
       IN IF r.password = "none"
          THEN Respond(p, FALSE, "Password is required to disable MFA", <<>>)
          ELSE IF mfaRequired.required /\ mfaRequired.reason # "enabled"
          THEN Respond(p, FALSE,
                       "MFA is required by policy and cannot be disabled", <<>>)
          ELSE IF r.password # "valid"
          THEN Respond(p, FALSE, "Invalid password", <<>>)
          ELSE Goto(p, "dm_update", <<>>)
    /\ UNCHANGED <<now, mfa, appSecret, session, pendingAuth, gen, accepts, issued, Env>>
    /\ NoCounterChange

\* disableMfa: updateById
DisableMfa_Update(p) ==
    /\ proc[p].pc = "dm_update"
    /\ mfa' = updateById(mfa, DisableMfaUpdates)
    /\ Respond(p, TRUE, "", <<>>)
    /\ CounterReset
    /\ CodesReplaced(0, "disable")
    /\ UNCHANGED <<now, appSecret, session, pendingAuth, gen, Env>>

\* ------------------------------------------------------ new backup codes
\* POST /api/1/auth-mfa/backup-codes arrives
BeginBackupCodes(p) ==
    /\ Available(p)
    /\ gen + InFlight("verify-setup") + InFlight("backup-codes") < MaxGen
    /\ Arrive(p, [op |-> "backup-codes"])
    /\ UNCHANGED <<now, mfa, appSecret, session, pendingAuth, gen, accepts, issued, Env>>
    /\ NoCounterChange

\* a regeneration that hands out the codes of the set generated before
ApiBackupCodes_SameSet(p) ==
    /\ proc[p].pc = "loaded"
    /\ proc[p].op = "backup-codes"
    /\ IF ~proc[p].user.enabled
       THEN /\ Respond(p, FALSE, "MFA is not enabled", <<>>)
            /\ UNCHANGED gen
       ELSE LET g == generateBackupCodes(backupCodeCount, gen)
            IN /\ gen' = gen + 1
               /\ Goto(p, "rg_update",
                       [codes |-> g.codes, hashes |-> g.hashes, set |-> gen])
    /\ UNCHANGED <<now, mfa, appSecret, session, pendingAuth, accepts, issued, Env>>
    /\ NoCounterChange

\* apiBackupCodes up to the updateById of regenerateBackupCodes
ApiBackupCodes(p) ==
    /\ proc[p].pc = "loaded"
    /\ proc[p].op = "backup-codes"
    /\ IF ~proc[p].user.enabled
       THEN /\ Respond(p, FALSE, "MFA is not enabled", <<>>)
            /\ UNCHANGED gen
       ELSE LET g == generateBackupCodes(backupCodeCount, gen + 1)
            IN /\ gen' = gen + 1
               /\ Goto(p, "rg_update",
                       [codes |-> g.codes, hashes |-> g.hashes, set |-> gen + 1])
    /\ UNCHANGED <<now, mfa, appSecret, session, pendingAuth, accepts, issued, Env>>
    /\ NoCounterChange

\* regenerateBackupCodes: updateById, the plain codes are returned
RegenerateBackupCodes_Update(p) ==
    /\ proc[p].pc = "rg_update"
    /\ mfa' = updateById(mfa, RegenerateUpdates(proc[p].hashes))
    /\ Respond(p, TRUE, "", [codes |-> proc[p].codes])
    /\ CodesReplaced(proc[p].set, "regenerate")
    /\ UNCHANGED <<now, appSecret, session, pendingAuth, gen, Env>>
    /\ NoCounterChange

\* ------------------------------------------------------------- environment
\* a catch block that lets the login step pass
StoreError_FailOpen(p) ==
    /\ \/ proc[p].pc \in {"ubc_find", "ubc_update", "rs_update", "rf_find",
                          "rf_update", "em_update", "dm_update", "rg_update"}
       \/ proc[p].pc = "loaded" /\ proc[p].op = "status"
    /\ Respond(p, proc[p].op = "validate",
               CASE proc[p].op = "validate" -> "MFA verification failed"
                 [] proc[p].op = "status" -> "Failed to get MFA status"
                 [] proc[p].op = "verify-setup" -> "Failed to enable MFA"
                 [] proc[p].op = "disable" -> "Failed to disable MFA"
                 [] OTHER -> "Failed to generate backup codes", <<>>)
    /\ UNCHANGED <<now, mfa, appSecret, session, pendingAuth, gen, accepts, issued, Env>>
    /\ NoCounterChange

\* the store rejects a findById / updateById: the handler's catch block answers
StoreError(p) ==
    /\ \/ proc[p].pc \in {"ubc_find", "ubc_update", "rs_update", "rf_find",
                          "rf_update", "em_update", "dm_update", "rg_update"}
       \/ proc[p].pc = "loaded" /\ proc[p].op = "status"
    /\ Respond(p, FALSE,
               CASE proc[p].op = "validate" -> "MFA verification failed"
                 [] proc[p].op = "status" -> "Failed to get MFA status"
                 [] proc[p].op = "verify-setup" -> "Failed to enable MFA"
                 [] proc[p].op = "disable" -> "Failed to disable MFA"
                 [] OTHER -> "Failed to generate backup codes", <<>>)
    /\ UNCHANGED <<now, mfa, appSecret, session, pendingAuth, gen, accepts, issued, Env>>
    /\ NoCounterChange

\* ------------------------------------------------------------------ status
\* GET /api/1/auth-mfa/status arrives
BeginStatus(p) ==
    /\ Available(p)
    /\ Arrive(p, [op |-> "status"])
    /\ UNCHANGED <<now, mfa, appSecret, session, pendingAuth, gen, accepts, issued, Env>>
    /\ NoCounterChange

\* apiStatus: getUserMfaStatus reads the store, isMfaRequired the user object
\* the handler was given
ApiStatus(p) ==
    /\ proc[p].pc = "loaded"
    /\ proc[p].op = "status"
    /\ Respond(p, TRUE, "",
               [status |-> getUserMfaStatus(mfa, now),
                policy |-> isMfaRequired(proc[p].user, roles, config, now)])
    /\ UNCHANGED <<now, mfa, appSecret, session, pendingAuth, gen, accepts, issued, Env>>
    /\ NoCounterChange

\* adminCard action 'reset', shown when mfa.enabled is true, then saved
AdminReset ==
    /\ mfa.enabled
    /\ mfa' = updateById(mfa, AdminResetFields)
    /\ CounterReset
    /\ CodesReplaced(0, "none")
    /\ UNCHANGED <<now, appSecret, session, pendingAuth, proc, gen, Env>>
    /\ response' = NoResponse
    /\ UNCHANGED returned

\* adminCard action 'unlock', shown when mfa.lockedUntil exists, then saved
AdminUnlock ==
    /\ mfa.lockedUntil # Null
    /\ mfa' = updateById(mfa, AdminUnlockFields)
    /\ CounterReset
    /\ UNCHANGED <<now, appSecret, session, pendingAuth, proc, gen, accepts, issued, Env>>
    /\ response' = NoResponse
    /\ UNCHANGED returned

\* userCard action 'disable', shown when mfa.enabled is true and the site
\* configuration sets auth-mfa.allowUserDisable, then saved
UserCardDisable ==
    /\ mfa.enabled
    /\ config.allowUserDisable
    /\ mfa' = updateById(mfa, UserCardDisableFields)
    /\ NoCounterChange
    /\ CodesReplaced(0, "none")
    /\ UNCHANGED <<now, appSecret, session, pendingAuth, proc, gen, Env>>
    /\ response' = NoResponse
    /\ UNCHANGED returned

\* ------------------------------------------------------------- the vault
\* the plaintexts encrypt is called with
Texts == UNION {[1..n -> CodeUnits] : n \in 0..MaxText}

\* a string is well-formed when its surrogates come in pairs
WellFormed(text) ==
    \A i \in DOMAIN text :
        /\ text[i] = HighSurrogate
             => (i < Len(text) /\ text[i + 1] = LowSurrogate)
        /\ text[i] = LowSurrogate
             => (i > 1 /\ text[i - 1] = HighSurrogate)

\* data that is no iv, tag and encrypted bytes
Garbage == <<0>>

\* the stored text with its first byte changed
Flipped(bytes) ==
    IF bytes = <<>> THEN <<"A">>
    ELSE [bytes EXCEPT ![1] = IF @ = "A" THEN "B" ELSE "A"]

\* what a blob that encrypt returned can be changed into in the store: cut
\* short, with another iv, with the tag of another text, with encrypted bytes
\* changed or cut, or replaced by something that is no blob
Tamperings(blob) ==
    IF blob = <<>> THEN {Garbage}
    ELSE LET iv == blob[1]
             authTag == blob[2]
             encrypted == blob[3]
             key == encrypted[2]
             bytes == encrypted[4]
         IN {Garbage,
             <<iv>>,
             <<iv, authTag>>,
             <<iv + 1, authTag, encrypted>>,
             <<iv, GcmTag(key, iv, Flipped(bytes)), encrypted>>,
             <<iv, authTag, GcmCipher(key, iv, Flipped(bytes))>>,
             <<iv, authTag, GcmCipher(key, iv, SubSeq(bytes, 1, Len(bytes) - 1))>>}

\* the rest of the state when encrypt or decrypt is called directly
VaultFrame ==
    /\ response' = NoResponse
    /\ UNCHANGED returned
    /\ UNCHANGED <<now, mfa, appSecret, session, pendingAuth, proc, gen,
                   accepts, issued, roles, config, track, trackKinds,
                   superseded>>
    /\ NoCounterChange

\* encrypt(text)
VaultEncrypt ==
    /\ vault.did = "none"
    /\ \E iv \in IVs :
         vault' = [vault EXCEPT !.blob = encrypt(vault.text, iv, appSecret),
                                !.key = appSecret, !.did = "encrypt"]
    /\ VaultFrame

\* the blob is changed where it is kept
VaultTamper ==
    /\ vault.did = "encrypt"
    /\ \E blob \in Tamperings(vault.blob) :
         vault' = [vault EXCEPT !.blob = blob, !.intact = FALSE,
                                !.did = "tamper"]
    /\ VaultFrame

\* decrypt(encryptedText)
VaultDecrypt ==
    /\ vault.did \in {"encrypt", "tamper"}
    /\ vault' = [vault EXCEPT !.plain = decrypt(vault.blob, appSecret),
                              !.under = appSecret, !.did = "decrypt"]
    /\ VaultFrame

\* the stored mfa.secret of an enrolled user, as encrypt wrote it, is changed
\* in the user store
CorruptSecret ==
    /\ mfa.secret \in
         {encrypt(x, iv, s) : x \in Secrets, iv \in IVs, s \in AppSecrets}
    /\ \E blob \in Tamperings(mfa.secret) : mfa' = [mfa EXCEPT !.secret = blob]
    /\ response' = NoResponse
    /\ UNCHANGED returned
    /\ UNCHANGED <<now, appSecret, session, pendingAuth, proc, gen, accepts,
                   issued, Env>>
    /\ NoCounterChange

\* the process is restarted with another sessionSecret
ChangeSessionSecret ==
    /\ appSecret = 1
    /\ appSecret' = 2
    /\ UNCHANGED <<now, mfa, session, pendingAuth, proc, gen, accepts, issued, Env>>
    /\ response' = NoResponse
    /\ UNCHANGED returned
    /\ NoCounterChange

Tick ==
    /\ now < MaxTime
    /\ now' = now + 1
    /\ UNCHANGED <<mfa, appSecret, session, pendingAuth, proc, gen, accepts, issued, Env>>
    /\ response' = NoResponse
    /\ UNCHANGED returned
    /\ NoCounterChange

\* --------------------------------------------------------- specifications
InitCommon ==
    /\ now = 0
    /\ appSecret = 1
    /\ session = [s \in Sessions |-> NoSecret]
    /\ pendingAuth = FALSE
    /\ proc = [p \in Procs |-> Idle]
    /\ response = NoResponse
    /\ gen = 0
    /\ atomicFA = 0
    /\ resetRaced = FALSE
    /\ failedKinds = {}
    /\ accepts = NoAccepts
    /\ issued = NoneIssued
    /\ returned = {}
    /\ vault = NoVault
    /\ superseded = {}

\* the default policy, a user without a grace period
Init ==
    /\ InitCommon
    /\ track = TRUE
    /\ trackKinds = TRUE
    /\ roles = {"user"}
    /\ config = [mfaPolicy |-> "optional", allowUserDisable |-> FALSE]
    /\ mfa = DefaultMfa(Null)

\* the login-step requests of slot p
Verification(p, T, B) ==
    \/ \E code \in T : BeginValidate(p, "mfa", code)
    \/ \E code \in B : BeginValidate(p, "mfa-backup", code)
    \/ OnAuthValidateStep(p)
    \/ UseBackupCode_Find(p)
    \/ UseBackupCode_Update(p)
    \/ RecordSuccess_Update(p)
    \/ RecordFailure_Find(p)
    \/ RecordFailure_Update(p)

\* the enrollment requests of slot p, in sessions S, with generated secrets G
Enrollment(p, S, G, T) ==
    \/ \E s \in S : BeginSetup(p, s)
    \/ \E secret \in G : ApiSetup(p, secret)
    \/ \E s \in S : \E code \in T : BeginVerifySetup(p, s, code)
    \/ ApiVerifySetup(p)
    \/ EnableMfa_Update(p)
    \/ ApiVerifySetup_Clear(p)

\* the profile-management requests of slot p
Management(p, P) ==
    \/ \E password \in P : BeginDisable(p, password)
    \/ ApiDisable(p)
    \/ DisableMfa_Update(p)
    \/ BeginBackupCodes(p)
    \/ ApiBackupCodes(p)
    \/ RegenerateBackupCodes_Update(p)

\* one request at a time
Next ==
    \/ Verification(1, TotpInputs, BackupInputs)
    \/ Enrollment(1, {1}, {<<"A">>}, TotpInputs)
    \/ Management(1, {"none", "valid", "invalid"})
    \/ BeginStatus(1)
    \/ ApiStatus(1)
    \/ StoreError(1)
    \/ OnAuthGetSteps
    \/ AdminReset
    \/ AdminUnlock
    \/ Tick

Spec == Init /\ [][Next]_vars

\* the default policy; requests overlap
InitConc ==
    /\ InitCommon
    /\ track = FALSE
    /\ trackKinds = FALSE
    /\ roles = {"user"}
    /\ config = [mfaPolicy |-> "optional", allowUserDisable |-> FALSE]
    /\ mfa = DefaultMfa(Null)

NextConc ==
    \/ \E p \in Procs :
         \/ Verification(p, TotpInputs \ {NoCode}, BackupInputs \ {NoCode})
         \/ Enrollment(p, {1}, {<<"A">>}, {Totp(<<"A">>, now)})
         \/ Management(p, {"valid"})
    \/ OnAuthGetSteps
    \/ AdminReset
    \/ AdminUnlock

SpecConc == InitConc /\ [][NextConc]_vars

\* the profile right after enrollment, a login waiting for its 'mfa' step
Enrolled ==
    updateById(DefaultMfa(Null),
               EnableMfaUpdates(encrypt(<<"A">>, 1, 1),
                                generateBackupCodes(backupCodeCount, 1).hashes, 0))

InitRace ==
    /\ now = 0
    /\ appSecret = 1
    /\ session = [s \in Sessions |-> NoSecret]
    /\ pendingAuth = TRUE
    /\ proc = [p \in Procs |-> Idle]
    /\ response = NoResponse
    /\ gen = 1
    /\ track = TRUE
    /\ trackKinds = FALSE
    /\ atomicFA = 0
    /\ resetRaced = FALSE
    /\ failedKinds = {}
    /\ accepts = NoAccepts
    /\ issued = [set |-> 1, by |-> "enable"]
    /\ returned = {}
    /\ vault = NoVault
    /\ superseded = {}
    /\ roles = {"user"}
    /\ config = [mfaPolicy |-> "optional", allowUserDisable |-> FALSE]
    /\ mfa = Enrolled

\* overlapping login steps and profile management of an enrolled user
NextRace ==
    \/ \E p \in Procs :
         \/ Verification(p, TotpInputs \ {NoCode}, BackupInputs \ {NoCode})
         \/ Management(p, {"valid"})
    \/ AdminReset
    \/ AdminUnlock

SpecRace == InitRace /\ [][NextRace]_vars

\* overlapping login steps of an enrolled user, nothing else: the counter is
\* reset by successful steps only
NextVerify ==
    \E p \in Procs :
        Verification(p, TotpInputs \ {NoCode}, BackupInputs \ {NoCode})

SpecVerify == InitRace /\ [][NextVerify]_vars

\* enrolment in two sessions with two secrets and the user's own profile
\* management, one request at a time
InitEnroll ==
    /\ InitCommon
    /\ track = TRUE
    /\ trackKinds = FALSE
    /\ roles = {"user"}
    /\ config = [mfaPolicy |-> "optional", allowUserDisable |-> FALSE]
    /\ mfa = DefaultMfa(Null)

NextEnroll ==
    \/ Enrollment(1, Sessions, Secrets, TotpInputs)
    \/ Management(1, {"valid"})
    \/ StoreError(1)
    \/ Tick

SpecEnroll == InitEnroll /\ [][NextEnroll]_vars

\* every policy and an unknown one, a user with and without a required role, with and without a
\* grace period, the user card's disable allowed or not; enrolment and profile
\* management, one request at a time
InitPolicy ==
    /\ InitCommon
    /\ track = FALSE
    /\ trackKinds = FALSE
    /\ roles \in {{"user"}, {"root"}, {"user", "root"}}
    /\ config \in [mfaPolicy : Policies \cup {UnknownPolicy},
                   allowUserDisable : BOOLEAN]
    /\ \E grace \in {Null, Date(2)} : mfa = DefaultMfa(grace)

NextPolicy ==
    \/ Enrollment(1, {1}, {<<"A">>}, TotpInputs)
    \/ Management(1, {"none", "valid", "invalid"})
    \/ BeginStatus(1)
    \/ ApiStatus(1)
    \/ StoreError(1)
    \/ AdminReset
    \/ UserCardDisable
    \/ Tick

SpecPolicy == InitPolicy /\ [][NextPolicy]_vars

\* every policy, role set and grace period, a user who has enrolled or has
\* not; logins, one request at a time
InitLogin ==
    /\ now = 0
    /\ appSecret = 1
    /\ session = [s \in Sessions |-> NoSecret]
    /\ pendingAuth = FALSE
    /\ proc = [p \in Procs |-> Idle]
    /\ response = NoResponse
    /\ track = FALSE
    /\ trackKinds = FALSE
    /\ atomicFA = 0
    /\ resetRaced = FALSE
    /\ failedKinds = {}
    /\ accepts = NoAccepts
    /\ issued = NoneIssued
    /\ returned = {}
    /\ vault = NoVault
    /\ superseded = {}
    /\ roles \in {{"user"}, {"root"}, {"user", "root"}}
    /\ \E policy \in Policies \cup {UnknownPolicy} :
         config = [mfaPolicy |-> policy, allowUserDisable |-> FALSE]
    /\ \E grace \in {Null, Date(2)} :
         \/ gen = 0 /\ mfa = DefaultMfa(grace)
         \/ gen = 1 /\ mfa = updateById(Enrolled, [gracePeriodUntil |-> grace])

NextLogin ==
    \/ OnAuthGetSteps
    \/ OnAuthGetWarnings
    \/ OnAuthValidateOtherStep
    \/ OnAuthValidateNoUser
    \/ Verification(1, TotpInputs, BackupInputs)
    \/ StoreError(1)
    \/ Tick

SpecLogin == InitLogin /\ [][NextLogin]_vars

\* encryption: either encrypt and decrypt are called directly with a text, or
\* an enrolled user logs in after the stored secret or the process secret
\* has changed
InitCrypto ==
    /\ now = 0
    /\ appSecret = 1
    /\ session = [s \in Sessions |-> NoSecret]
    /\ proc = [p \in Procs |-> Idle]
    /\ response = NoResponse
    /\ track = FALSE
    /\ trackKinds = FALSE
    /\ atomicFA = 0
    /\ resetRaced = FALSE
    /\ failedKinds = {}
    /\ accepts = NoAccepts
    /\ issued = NoneIssued
    /\ returned = {}
    /\ superseded = {}
    /\ roles = {"user"}
    /\ config = [mfaPolicy |-> "optional", allowUserDisable |-> FALSE]
    /\ \/ /\ \E text \in Texts :
                vault = [NoVault EXCEPT !.text = text, !.did = "none"]
          /\ mfa = DefaultMfa(Null)
          /\ gen = 0
          /\ pendingAuth = FALSE
       \/ /\ vault = NoVault
          /\ mfa = Enrolled
          /\ gen = 1
          /\ pendingAuth = TRUE

NextCrypto ==
    \/ VaultEncrypt
    \/ VaultTamper
    \/ VaultDecrypt
    \/ CorruptSecret
    \/ ChangeSessionSecret
    \/ Verification(1, TotpInputs, BackupInputs)
    \/ Tick

SpecCrypto == InitCrypto /\ [][NextCrypto]_vars

\* the login steps of an enrolled user who types the backup codes in several
\* ways, one request at a time
NextBackup ==
    \/ Verification(1, TotpInputs, TypedBackupInputs)
    \/ AdminUnlock
    \/ Tick

SpecBackup == InitRace /\ [][NextBackup]_vars

\* ================================================================ properties

\* C1: while the stored lock has not expired (now < lockedUntil), the step
\* handler rejects a submitted TOTP or backup code with "Account is
\* temporarily locked", whether or not the code is correct, and writes nothing
\* to the profile.
C1_LockedRejectsEveryCode ==
    [][\A p \in Procs :
        (/\ proc[p].pc = "loaded"
         /\ proc[p].op = "validate"
         /\ proc[p].code # NoCode
         /\ proc'[p] # proc[p]
         /\ mfa.lockedUntil # Null
         /\ now < mfa.lockedUntil[1])
        => (/\ proc'[p] = Idle
            /\ ~response'.valid
            /\ response'.error = "Account is temporarily locked"
            /\ mfa' = mfa)]_vars

\* the correct TOTP code has just been rejected for the lock that
\* maxFailedAttempts consecutive failures set
C1_Witness ==
    /\ response.op = "validate"
    /\ response.error = "Account is temporarily locked"
    /\ mfa.secret # <<>>
    /\ response.code = Totp(decrypt(mfa.secret, appSecret), now)
    /\ atomicFA = maxFailedAttempts
    /\ mfa.failedAttempts = maxFailedAttempts
    /\ mfa.lockedUntil # Null
    /\ now < mfa.lockedUntil[1]

\* C2: the k-th consecutive recordFailure since the counter was last 0 (no
\* reset overlapping it) returns attempts = k and stores failedAttempts = k;
\* for k < maxFailedAttempts it returns locked = false and lockedUntil stays
\* unset; for k = maxFailedAttempts it returns locked = true and stores
\* lockedUntil = the time of the call + lockoutDuration minutes.
C2_RecordFailureCounts ==
    [][\A p \in Procs :
        /\ (/\ proc[p].pc = "rf_find"
            /\ proc'[p].pc = "rf_update"
            /\ ~resetRaced)
           => LET k == atomicFA + 1
                  r == proc'[p].rf
              IN /\ r.attempts = k
                 /\ k < maxFailedAttempts
                      => (~r.locked /\ r.lockedUntil = Null)
                 /\ k = maxFailedAttempts
                      => (/\ r.locked
                          /\ r.lockedUntil =
                               Date(now + lockoutDuration * TicksPerMinute))
        /\ (/\ proc[p].pc = "rf_update"
            /\ proc'[p] = Idle
            /\ response'.error # "MFA verification failed"
            /\ ~resetRaced)
           => LET k == atomicFA'
                  r == response'.rf
              IN /\ r = proc[p].rf
                 /\ r.attempts = k
                 /\ mfa'.failedAttempts = k
                 /\ k < maxFailedAttempts
                      => (~r.locked /\ mfa'.lockedUntil = Null)
                 /\ k = maxFailedAttempts
                      => (r.locked /\ mfa'.lockedUntil = r.lockedUntil)]_vars

\* the maxFailedAttempts-th consecutive failure has just locked the account
C2_Witness ==
    /\ response.op = "validate"
    /\ response.rf.locked
    /\ response.rf.attempts = maxFailedAttempts
    /\ atomicFA = maxFailedAttempts
    /\ ~resetRaced
    /\ mfa.failedAttempts = maxFailedAttempts
    /\ mfa.lockedUntil = response.rf.lockedUntil

\* C3: when recordFailure calls overlap, no failure is lost: as long as no
\* reset of the counter overlapped a recordFailure, failedAttempts is the
\* number of failures recorded since the counter was last 0, and the account
\* is locked once that number has reached maxFailedAttempts.
C3_NoLostFailure ==
    ~resetRaced =>
        /\ mfa.failedAttempts = atomicFA
        /\ atomicFA >= maxFailedAttempts => mfa.lockedUntil # Null

\* C4: a backup code is single-use under every interleaving: of the calls of
\* useBackupCode with one code at most one returns true, and the hash of an
\* accepted code is no longer among the stored hashes.
C4_BackupCodeSingleUse ==
    \A h \in AllHashes :
        /\ accepts[h] <= 1
        /\ accepts[h] = 1 =>
             \A i \in DOMAIN mfa.backupCodes : mfa.backupCodes[i] # h

\* C5: for an enabled user under the policy "required", or under
\* "required-for-roles" with one of the required roles, no step of a disable
\* request changes the profile, and the request is not answered with success.
C5_PolicyForbidsDisable ==
    [][\A p \in Procs :
        (/\ proc[p].op = "disable"
         /\ proc'[p] # proc[p]
         /\ mfa.enabled
         /\ \/ config.mfaPolicy = "required"
            \/ /\ config.mfaPolicy = "required-for-roles"
               /\ roles \cap requiredRoles # {})
        => (/\ mfa' = mfa
            /\ proc'[p] = Idle => ~response'.valid)]_vars

\* C6: a verification attempt that is answered as invalid (for another reason
\* than the lock, a missing code or a failing store) is answered by
\* recordFailure, whose write adds one to failedAttempts.
C6_EveryRejectionCounts ==
    [][\A p \in Procs :
        (/\ proc[p].op = "validate"
         /\ proc'[p] = Idle
         /\ ~response'.valid
         /\ response'.error \notin
              {"Account is temporarily locked", "MFA code required",
               "Backup code required", "MFA verification failed"})
        => (/\ proc[p].pc = "rf_update"
            /\ mfa'.failedAttempts > 0
            /\ ~resetRaced => mfa'.failedAttempts = mfa.failedAttempts + 1)]_vars

\* C7: once regenerateBackupCodes has returned a set of codes, and until the
\* codes are replaced again, no other code verifies against the stored hashes
\* and every code of the set that has not been accepted does.
C7_RegenerateSwaps ==
    (issued.by = "regenerate" /\ mfa.enabled) =>
        LET new == generateBackupCodes(backupCodeCount, issued.set)
        IN /\ \A i \in DOMAIN mfa.backupCodes :
                \E j \in DOMAIN new.hashes : mfa.backupCodes[i] = new.hashes[j]
           /\ \A j \in DOMAIN new.codes :
                accepts[new.hashes[j]] = 0
                    => verifyBackupCode(new.codes[j], mfa.backupCodes) # 0

\* C8: with a pending setup, a verify-setup request with a wrong code is
\* answered "Invalid verification code" and changes neither the pending
\* secret nor the profile; one with a correct code goes on to enableMfa with
\* backupCodeCount codes, enableMfa sets enabled, and the request returns
\* exactly those backupCodeCount codes and deletes the pending secret.
C8_CompleteAfterWrongCodes ==
    [][\A p \in Procs :
        /\ (/\ proc[p].pc = "loaded"
            /\ proc[p].op = "verify-setup"
            /\ proc'[p] # proc[p]
            /\ proc[p].code # NoCode
            /\ session[proc[p].sess] # NoSecret)
           => IF AuthenticatorVerify(proc[p].code, session[proc[p].sess], now)
              THEN /\ proc'[p].pc = "em_update"
                   /\ Len(proc'[p].codes) = backupCodeCount
                   /\ session' = session
              ELSE /\ proc'[p] = Idle
                   /\ ~response'.valid
                   /\ response'.error = "Invalid verification code"
                   /\ session' = session
                   /\ mfa' = mfa
        /\ (proc[p].pc = "em_update" /\ proc'[p].pc = "em_clear")
           => /\ mfa'.enabled
              /\ Len(mfa'.backupCodes) = backupCodeCount
              /\ proc'[p].codes = proc[p].codes
        /\ (proc[p].pc = "em_clear" /\ proc'[p] = Idle /\ response'.valid)
           => /\ response'.codes = proc[p].codes
              /\ Len(response'.codes) = backupCodeCount
              /\ session'[proc[p].sess] = NoSecret]_vars

\* a wrong code has just been rejected: the setup is still pending and the
\* profile is as it was created
C8_Witness ==
    /\ response.op = "verify-setup"
    /\ response.error = "Invalid verification code"
    /\ response.code # NoCode
    /\ \E s \in Sessions : session[s] # NoSecret
    /\ mfa = DefaultMfa(Null)

\* C9: under every interleaving, enabled goes from false to true only in the
\* write of enableMfa made by a verify-setup request, and from true to false
\* only in the write of disableMfa or in the administrator's reset.
C9_EnabledTransitions ==
    [][/\ (~mfa.enabled /\ mfa'.enabled)
          => \E p \in Procs :
                proc[p].op = "verify-setup" /\ EnableMfa_Update(p)
       /\ (mfa.enabled /\ ~mfa'.enabled)
          => \/ \E p \in Procs : proc[p].op = "disable" /\ DisableMfa_Update(p)
             \/ AdminReset]_vars

\* a disable has just switched MFA off while a regeneration of the backup
\* codes, begun when MFA was on, is still to write
C9_Witness ==
    /\ response.op = "disable"
    /\ response.valid
    /\ ~mfa.enabled
    /\ \E q \in Procs : proc[q].pc = "rg_update"

\* C10: under every interleaving, enabled is true exactly when the stored
\* secret ciphertext is not empty.
C10_EnabledIffSecret ==
    mfa.enabled <=> mfa.secret # <<>>

\* MFA has been switched on a second time, and a disable is about to write
C10_Witness ==
    /\ mfa.enabled
    /\ mfa.secret # <<>>
    /\ gen = MaxGen
    /\ \E q \in Procs : proc[q].pc = "dm_update"

\* C11: failedAttempts is 0 right after every successful verification and
\* after the administrator's reset or unlock, and a step that raises
\* failedAttempts is the write of a failed verification and raises it by
\* exactly 1.
C11_CounterResetsAndSteps ==
    [][/\ (\E p \in Procs :
             /\ proc[p].op = "validate"
             /\ proc'[p] = Idle
             /\ response'.valid)
          => mfa'.failedAttempts = 0
       /\ (AdminReset \/ AdminUnlock) => mfa'.failedAttempts = 0
       /\ mfa'.failedAttempts > mfa.failedAttempts
          => /\ \E p \in Procs :
                  /\ proc[p].pc = "rf_update"
                  /\ proc'[p] = Idle
                  /\ ~response'.valid
             /\ mfa'.failedAttempts = mfa.failedAttempts + 1]_vars

\* C12: in every reachable state a stored lockedUntil implies
\* failedAttempts >= maxFailedAttempts.
C12_LockImpliesThreshold ==
    mfa.lockedUntil # Null => mfa.failedAttempts >= maxFailedAttempts

\* C13: while the user is locked (now < lockedUntil) only the administrator's
\* reset or unlock clears the stored lock, and no verification step is
\* answered as valid.
C13_LockOutlivesUserRequests ==
    [][(mfa.lockedUntil # Null /\ now < mfa.lockedUntil[1])
        => /\ mfa'.lockedUntil = Null => (AdminReset \/ AdminUnlock)
           /\ ~\E p \in Procs :
                 /\ proc[p].op = "validate"
                 /\ proc'[p] = Idle
                 /\ response'.valid]_vars

\* C14: for a user with mfa.enabled = true the status request reports
\* policyRequired = true, policyReason = 'enabled', under every policy, role
\* set and grace period.
C14_EnabledTakesPrecedence ==
    [][\A p \in Procs :
        (/\ proc[p].pc = "loaded"
         /\ proc[p].op = "status"
         /\ proc'[p] = Idle
         /\ response'.valid
         /\ proc[p].user.enabled)
        => response'.policy = [required |-> TRUE, reason |-> "enabled"]]_vars

\* an enabled user under the policy 'required', inside the grace period, has
\* been told 'enabled'
C14_Witness ==
    /\ response.op = "status"
    /\ response.valid
    /\ response.status.enabled
    /\ response.policy = [required |-> TRUE, reason |-> "enabled"]
    /\ config.mfaPolicy = "required"
    /\ mfa.gracePeriodUntil # Null
    /\ now < mfa.gracePeriodUntil[1]

\* C15: for a user with enabled = false under the policy 'required' the
\* answer is {false, grace-period} exactly when gracePeriodUntil is set and
\* now < gracePeriodUntil, and {true, policy-required} otherwise.
C15_RequiredPolicy ==
    [][\A p \in Procs :
        (/\ proc[p].pc = "loaded"
         /\ proc[p].op = "status"
         /\ proc'[p] = Idle
         /\ response'.valid
         /\ ~proc[p].user.enabled
         /\ config.mfaPolicy = "required")
        => response'.policy =
             IF /\ proc[p].user.gracePeriodUntil # Null
                /\ now < proc[p].user.gracePeriodUntil[1]
             THEN [required |-> FALSE, reason |-> "grace-period"]
             ELSE [required |-> TRUE, reason |-> "policy-required"]]_vars

\* at the instant gracePeriodUntil the policy is enforced
C15_Witness ==
    /\ response.op = "status"
    /\ response.valid
    /\ ~response.status.enabled
    /\ response.policy = [required |-> TRUE, reason |-> "policy-required"]
    /\ config.mfaPolicy = "required"
    /\ mfa.gracePeriodUntil = Date(now)

\* C16: for a user with enabled = false under the policy
\* 'required-for-roles' the answer is {false, optional} when the user's roles
\* and requiredRoles do not intersect; when they do it is
\* {false, grace-period} if now < gracePeriodUntil and {true, role-required}
\* otherwise.
C16_RequiredForRoles ==
    [][\A p \in Procs :
        (/\ proc[p].pc = "loaded"
         /\ proc[p].op = "status"
         /\ proc'[p] = Idle
         /\ response'.valid
         /\ ~proc[p].user.enabled
         /\ config.mfaPolicy = "required-for-roles")
        => response'.policy =
             IF roles \cap requiredRoles = {}
             THEN [required |-> FALSE, reason |-> "optional"]
             ELSE IF /\ proc[p].user.gracePeriodUntil # Null
                     /\ now < proc[p].user.gracePeriodUntil[1]
             THEN [required |-> FALSE, reason |-> "grace-period"]
             ELSE [required |-> TRUE, reason |-> "role-required"]]_vars

\* a user with a required role among others, the grace period over, is
\* told 'role-required'
C16_Witness ==
    /\ response.op = "status"
    /\ response.valid
    /\ ~response.status.enabled
    /\ response.policy = [required |-> TRUE, reason |-> "role-required"]
    /\ roles = {"user", "root"}
    /\ mfa.gracePeriodUntil # Null
    /\ now > mfa.gracePeriodUntil[1]

\* C17: for a user with enabled = false the answer is {false, optional}
\* under the policy 'optional' and under every policy value the code does not
\* know, whatever the roles and the grace period.
C17_OptionalAndUnknown ==
    [][\A p \in Procs :
        (/\ proc[p].pc = "loaded"
         /\ proc[p].op = "status"
         /\ proc'[p] = Idle
         /\ response'.valid
         /\ ~proc[p].user.enabled
         /\ config.mfaPolicy \notin {"required", "required-for-roles"})
        => response'.policy = [required |-> FALSE, reason |-> "optional"]]_vars

\* a user with a required role, no grace period left, under a policy value
\* the code does not know, is told 'optional'
C17_Witness ==
    /\ response.op = "status"
    /\ response.valid
    /\ ~response.status.enabled
    /\ response.policy = [required |-> FALSE, reason |-> "optional"]
    /\ config.mfaPolicy = UnknownPolicy
    /\ "root" \in roles
    /\ mfa.gracePeriodUntil = Null

\* C18: a setup request never changes the stored profile; for an enabled
\* user it is answered 'MFA is already enabled' and leaves every session as
\* it is; when it succeeds it changes nothing but the pending secret of its
\* own session, which it sets to the secret it returns.
C18_StartFrame ==
    [][\A p \in Procs :
        (/\ proc[p].pc = "loaded"
         /\ proc[p].op = "setup"
         /\ proc'[p] # proc[p])
        => /\ mfa' = mfa
           /\ mfa.enabled
                => /\ ~response'.valid
                   /\ response'.error = "MFA is already enabled"
                   /\ session' = session
           /\ response'.valid
                => /\ response'.secret # NoSecret
                   /\ session' = [session EXCEPT
                                    ![proc[p].sess] = response'.secret]
                   /\ UNCHANGED <<pendingAuth, appSecret, gen>>]_vars

\* an enabled user has just been refused a new setup, and no setup is pending
C18_Witness ==
    /\ response.op = "setup"
    /\ response.error = "MFA is already enabled"
    /\ mfa.enabled
    /\ \A s \in Sessions : session[s] = NoSecret

\* C19: when a verify-setup request is answered with success its session
\* holds no pending secret any more; and a verify-setup request with a code
\* in a session without a pending secret (never started, or completed) is
\* answered 'No pending MFA setup' and changes neither profile nor sessions.
C19_PendingDestroyed ==
    [][\A p \in Procs :
        /\ (/\ proc[p].op = "verify-setup"
            /\ proc'[p] = Idle
            /\ response'.valid)
           => session'[proc[p].sess] = NoSecret
        /\ (/\ proc[p].pc = "loaded"
            /\ proc[p].op = "verify-setup"
            /\ proc'[p] # proc[p]
            /\ proc[p].code # NoCode
            /\ session[proc[p].sess] = NoSecret)
           => /\ proc'[p] = Idle
              /\ ~response'.valid
              /\ response'.error = "No pending MFA setup"
              /\ mfa' = mfa
              /\ session' = session
              /\ gen' = gen]_vars

\* after the setup was completed (the profile is the one enableMfa wrote), a
\* further verify-setup with a code has been refused for want of a pending setup
C19_Witness ==
    /\ response.op = "verify-setup"
    /\ response.error = "No pending MFA setup"
    /\ response.code # NoCode
    /\ mfa.enabled
    /\ issued.by = "enable"
    /\ \A s \in Sessions : session[s] = NoSecret

\* C20: a wrong TOTP code and a wrong backup code are answered by the same
\* recordFailure: either answer comes with a write that adds one to the one
\* counter failedAttempts, and the write that brings the failures recorded
\* since the last reset to maxFailedAttempts locks the account, whatever
\* kinds of step failed before.
C20_OneCounter ==
    [][\A p \in Procs :
        (/\ proc[p].op = "validate"
         /\ proc'[p] = Idle
         /\ response'.error \in {"Invalid MFA code",
                                 "Invalid or already used backup code"}
         /\ ~resetRaced)
        => /\ proc[p].pc = "rf_update"
           /\ mfa'.failedAttempts = mfa.failedAttempts + 1
           /\ mfa'.failedAttempts = atomicFA'
           /\ atomicFA' >= maxFailedAttempts
                => /\ response'.rf.locked
                   /\ mfa'.lockedUntil # Null
                   /\ mfa'.lockedUntil = response'.rf.lockedUntil]_vars

\* the account has just been locked by maxFailedAttempts failures of which
\* some were TOTP steps and some backup-code steps
C20_Witness ==
    /\ response.op = "validate"
    /\ response.rf.locked
    /\ atomicFA = maxFailedAttempts
    /\ ~resetRaced
    /\ failedKinds = {"mfa", "mfa-backup"}
    /\ mfa.failedAttempts = maxFailedAttempts
    /\ mfa.lockedUntil # Null
    /\ now < mfa.lockedUntil[1]

\* C21: a response carries plain backup codes only when it is the success
\* of a verify-setup or of a backup-codes request, and such a success always
\* carries backupCodeCount codes; a list of codes that a response carries was
\* in no response before; enableMfa and regenerateBackupCodes store the hashes
\* of the codes they return, and the stored backupCodes are hashes, never
\* codes; the status request reports only their number.
C21_CodesReturnedOnce ==
    [][/\ response'.codes # <<>>
          => /\ response'.op \in {"verify-setup", "backup-codes"}
             /\ response'.valid
             /\ response'.codes \notin returned
       /\ (/\ response'.op \in {"verify-setup", "backup-codes"}
           /\ response'.valid)
          => Len(response'.codes) = backupCodeCount
       /\ \A p \in Procs :
            (/\ proc[p].pc \in {"em_update", "rg_update"}
             /\ proc'[p] # proc[p]
             /\ mfa' # mfa)
            => mfa'.backupCodes =
                 [i \in DOMAIN proc[p].codes |-> hashBackupCode(proc[p].codes[i])]
       /\ \A i \in DOMAIN mfa'.backupCodes :
            /\ mfa'.backupCodes[i] \in AllHashes
            /\ mfa'.backupCodes[i] \notin AllCodes
       /\ (response'.op = "status" /\ response'.valid)
          => /\ response'.status.backupCodesCount = Len(mfa'.backupCodes)
             /\ response'.status.hasBackupCodes = (mfa'.backupCodes # <<>>)
             /\ DOMAIN response'.status =
                  {"exists", "enabled", "method", "enrolledAt", "lastUsedAt",
                   "hasBackupCodes", "backupCodesCount", "isLocked",
                   "lockedUntil", "failedAttempts"}]_vars

\* a regeneration has just returned a second set of codes, other than the set
\* the enrolment returned, and the profile holds its hashes
C21_Witness ==
    /\ response.op = "backup-codes"
    /\ response.valid
    /\ response.codes \in returned
    /\ Cardinality(returned) = 2
    /\ issued.by = "regenerate"
    /\ Len(mfa.backupCodes) = backupCodeCount
    /\ \A i \in DOMAIN mfa.backupCodes :
         mfa.backupCodes[i] = hashBackupCode(response.codes[i])

\* C22: onAuthGetSteps pushes the 'mfa' step exactly for a user with
\* enabled = true, whatever the policy and whether or not the user is locked,
\* and changes nothing in the profile; and the login of a user with
\* enabled = true completes only right after a verification step that was
\* answered as valid.
C22_StepIffEnabled ==
    [][/\ response'.op = "get-steps"
          => /\ response'.steps = IF mfa.enabled THEN {"mfa"} ELSE {}
             /\ mfa.enabled => pendingAuth'
             /\ mfa' = mfa
       /\ (response'.op = "login" /\ mfa.enabled)
          => /\ response.op = "validate"
             /\ response.valid]_vars

\* a locked user under an unknown policy value has just been given the
\* 'mfa' step, flagged as locked
C22_Witness ==
    /\ response.op = "get-steps"
    /\ response.steps = {"mfa"}
    /\ response.stepData.isLocked
    /\ pendingAuth
    /\ mfa.enabled
    /\ mfa.lockedUntil # Null
    /\ now < mfa.lockedUntil[1]
    /\ config.mfaPolicy = UnknownPolicy

\* C23: under the policy 'required', or 'required-for-roles' with a
\* required role, the login of a user with enabled = false completes only
\* while now < gracePeriodUntil.
C23_GraceBoundsLogin ==
    [][(/\ response'.op = "login"
        /\ ~mfa.enabled
        /\ \/ config.mfaPolicy = "required"
           \/ /\ config.mfaPolicy = "required-for-roles"
              /\ roles \cap requiredRoles # {})
       => /\ mfa.gracePeriodUntil # Null
          /\ now < mfa.gracePeriodUntil[1]]_vars

\* C24: when the stored lock has expired (now >= lockedUntil) and the user
\* object of the request is still the stored one, a 'mfa' step with a code
\* that is correct for the stored secret goes on to recordSuccess; and the
\* write of recordSuccess answers the step as valid, sets failedAttempts to 0
\* and clears lockedUntil.
C24_LockLiftsByTime ==
    [][\A p \in Procs :
        /\ (/\ proc[p].pc = "loaded"
            /\ proc[p].op = "validate"
            /\ proc[p].step = "mfa"
            /\ proc'[p] # proc[p]
            /\ proc[p].user = Snapshot(mfa, "validate")
            /\ mfa.lockedUntil # Null
            /\ now >= mfa.lockedUntil[1]
            /\ AuthenticatorVerify(proc[p].code,
                                   decrypt(mfa.secret, appSecret), now))
           => proc'[p].pc = "rs_update"
        /\ (/\ proc[p].pc = "rs_update"
            /\ proc'[p] = Idle
            /\ response'.error # "MFA verification failed")
           => /\ response'.valid
              /\ mfa'.failedAttempts = 0
              /\ mfa'.lockedUntil = Null]_vars

\* the lock that maxFailedAttempts failures set has expired, nothing has
\* cleared it, and the correct code has been accepted: recordSuccess is about
\* to write
C24_Witness ==
    /\ \E p \in Procs :
         /\ proc[p].pc = "rs_update"
         /\ proc[p].step = "mfa"
    /\ mfa.failedAttempts = maxFailedAttempts
    /\ atomicFA = maxFailedAttempts
    /\ mfa.lockedUntil # Null
    /\ now >= mfa.lockedUntil[1]

\* C25 as stated: decrypt of what encrypt returned for a text, under the
\* process secret it was encrypted under, is that text; for the empty text
\* encrypt returns the empty blob, and decrypt of the empty blob is empty.
C25_RoundTrip ==
    /\ (vault.did = "decrypt" /\ vault.intact /\ vault.under = vault.key)
       => vault.plain = vault.text
    /\ (vault.did \in {"encrypt", "decrypt"} /\ vault.intact
        /\ vault.text = <<>>)
       => vault.blob = <<>>

\* C25, amended: decrypt of what encrypt returned for a non-empty well-formed
\* text (every surrogate with its partner), under the process secret it was
\* encrypted under, is that text; for the empty text encrypt returns the
\* empty blob, and decrypt of the empty blob is empty.
C25_RoundTripWellFormed ==
    /\ (vault.did = "decrypt" /\ vault.intact /\ vault.under = vault.key
        /\ WellFormed(vault.text))
       => vault.plain = vault.text
    /\ (vault.did \in {"encrypt", "decrypt"} /\ vault.intact
        /\ vault.text = <<>>)
       => vault.blob = <<>>
    /\ (vault.did = "decrypt" /\ vault.blob = <<>>) => vault.plain = <<>>

\* a text of one character outside the BMP has come back from decrypt
C25_Witness ==
    /\ vault.did = "decrypt"
    /\ vault.intact
    /\ vault.under = vault.key
    /\ vault.text = <<HighSurrogate, LowSurrogate>>
    /\ vault.blob # <<>>
    /\ vault.plain = vault.text

\* C26: decrypt of a blob that was changed after encrypt returned it, or
\* that was encrypted under another process secret, is the failure value '';
\* and a 'mfa' step with a code, for a user whose stored secret is no blob
\* that encrypt returns under the process secret for a generated secret, is
\* answered at once, as not valid, without a write to the profile.
C26_DecryptFailsClosed ==
    [][/\ (/\ vault'.did = "decrypt"
           /\ vault.did # "decrypt"
           /\ (~vault.intact \/ vault.key # appSecret))
          => vault'.plain = NoSecret
       /\ \A p \in Procs :
            (/\ proc[p].pc = "loaded"
             /\ proc[p].op = "validate"
             /\ proc[p].step = "mfa"
             /\ proc[p].code # NoCode
             /\ proc'[p] # proc[p]
             /\ proc[p].user.secret \notin
                  {encrypt(x, iv, appSecret) : x \in Secrets, iv \in IVs})
            => /\ proc'[p] = Idle
               /\ ~response'.valid
               /\ mfa' = mfa]_vars

\* after the process secret changed, the code that is right for the secret
\* the user enrolled with has been refused
C26_Witness ==
    /\ response.op = "validate"
    /\ response.error = "MFA not configured"
    /\ response.code = Totp(<<"A">>, now)
    /\ mfa.secret = encrypt(<<"A">>, 1, 1)
    /\ appSecret = 2

\* C27: the submitted backup code is looked up by its normal form (every
\* character that is no letter or digit removed, upper case): the cleaning
\* of the step handler keeps the normal form, and useBackupCode accepts the
\* code exactly when the hash of its normal form is among the stored hashes.
C27_NormalFormDecides ==
    [][\A p \in Procs :
        LET normalize(code) == ToUpperCase(Remove(code, {"-", " ", "."}))
        IN /\ (/\ proc[p].pc = "loaded"
               /\ proc[p].op = "validate"
               /\ proc'[p].pc = "ubc_find")
              => normalize(proc'[p].code) = normalize(proc[p].code)
           /\ (proc[p].pc = "ubc_find" /\ proc'[p] # proc[p])
              => (proc'[p].pc = "ubc_update"
                  <=> \E i \in DOMAIN mfa.backupCodes :
                        mfa.backupCodes[i] =
                          <<"sha256", normalize(proc[p].code),
                            "mfa-backup-salt">>)]_vars

\* C28: useBackupCode accepts a code only if it has not been accepted since
\* the stored codes were last replaced; the list it then writes is the list
\* it read without the first entry that matches the code (one shorter, the
\* other hashes in their order), and its write stores exactly that list.
C28_ConsumeFirstMatch ==
    [][\A p \in Procs :
        /\ (proc[p].pc = "ubc_find" /\ proc'[p].pc = "ubc_update")
           => LET h == hashBackupCode(proc[p].code)
                  old == mfa.backupCodes
                  new == proc'[p].hashes
              IN /\ accepts[h] = 0
                 /\ Len(new) = Len(old) - 1
                 /\ \E k \in DOMAIN old :
                      /\ old[k] = h
                      /\ \A j \in 1..(k - 1) : old[j] # h /\ new[j] = old[j]
                      /\ \A j \in k..Len(new) : new[j] = old[j + 1]
                 /\ mfa' = mfa
        /\ (proc[p].pc = "ubc_update" /\ proc'[p].pc = "rs_update")
           => /\ mfa'.backupCodes = proc[p].hashes
              /\ \A i \in DOMAIN mfa'.backupCodes :
                   mfa'.backupCodes[i] # hashBackupCode(proc[p].code)]_vars

\* the first code of the set has been used: the stored list is one shorter
\* and holds the hashes of the other codes, in their order
C28_Witness ==
    /\ \E p \in Procs : proc[p].pc = "rs_update" /\ proc[p].step = "mfa-backup"
    /\ issued.set > 0
    /\ LET set == generateBackupCodes(backupCodeCount, issued.set)
       IN /\ accepts[set.hashes[1]] = 1
          /\ mfa.backupCodes = Tail(set.hashes)

\* C29: the write of a successful disable sets enabled to false and clears
\* secret, backupCodes and enrolledAt; and after it, as long as no codes have
\* been issued again, no login step is accepted: not a 'mfa' step of a
\* request that arrived after the disable (its user has no secret), and no
\* 'mfa-backup' step whose lookup happens after the disable.
C29_DisableRevokes ==
    [][\A p \in Procs :
        /\ (/\ proc[p].pc = "dm_update"
            /\ proc'[p] = Idle
            /\ response'.valid)
           => /\ ~mfa'.enabled
              /\ mfa'.secret = <<>>
              /\ mfa'.backupCodes = <<>>
              /\ mfa'.enrolledAt = Null
        /\ (/\ issued.by = "disable"
            /\ proc[p].op = "validate"
            /\ \/ proc[p].pc = "loaded" /\ proc[p].user.secret = <<>>
               \/ proc[p].pc = "ubc_find")
           => proc'[p].pc \notin {"rs_update", "ubc_update"}]_vars

\* C30: whenever the stored profile has enabled = false at the step where
\* regenerateBackupCodes writes its new hashes, the request fails, the failure
\* (unless the store itself rejected the write) is 'MFA is not enabled', and
\* the stored profile is left as it was.
C30_RegenerateNeedsEnabled ==
    [][\A p \in Procs :
        (/\ proc[p].pc = "rg_update"
         /\ proc'[p] = Idle
         /\ ~mfa.enabled)
        => /\ ~response'.valid
           /\ response'.error \in {"MFA is not enabled", "Failed to generate backup codes"}
           /\ mfa' = mfa]_vars

\* C31: isLocked only reads. Where the login hooks call it (onAuthGetSteps
\* for a user with enabled = true, onAuthValidateStep for a step with a code)
\* the stored profile is left as it is, the answer is 'locked' exactly when
\* the lockedUntil of the user object is set and now < lockedUntil, and so,
\* from lockedUntil on, 'unlocked' with lockedUntil and failedAttempts still
\* stored.
C31_CheckLockedReadsOnly ==
    [][/\ (response'.op = "get-steps" /\ mfa.enabled)
          => /\ mfa' = mfa
             /\ response'.stepData.isLocked
                  <=> (mfa.lockedUntil # Null /\ now < mfa.lockedUntil[1])
       /\ \A p \in Procs :
            (/\ proc[p].pc = "loaded"
             /\ proc[p].op = "validate"
             /\ proc[p].code # NoCode
             /\ proc'[p] # proc[p])
            => /\ mfa' = mfa
               /\ (response'.error = "Account is temporarily locked")
                    <=> (/\ proc[p].user.lockedUntil # Null
                         /\ now < proc[p].user.lockedUntil[1])]_vars

\* at the instant lockedUntil the user has been reported as not locked, and
\* the lock date and the failures that set it are still stored
C31_Witness ==
    /\ response.op = "get-steps"
    /\ response.steps = {"mfa"}
    /\ ~response.stepData.isLocked
    /\ mfa.lockedUntil # Null
    /\ now = mfa.lockedUntil[1]
    /\ mfa.failedAttempts >= maxFailedAttempts

\* C32: whenever isLocked answers 'locked', the minutes it reports are
\* ceil((lockedUntil - now) / one minute), which for a lock recordFailure set
\* lies in 1..lockoutDuration; when it answers 'not locked' it reports no
\* minutes (0 in the 'mfa' step's data, no lock message).
C32_RemainingMinutes ==
    [][/\ (response'.op = "get-steps" /\ mfa.enabled)
          => LET m == response'.stepData.lockoutMinutes
             IN IF response'.stepData.isLocked
                THEN /\ m * TicksPerMinute >= mfa.lockedUntil[1] - now
                     /\ (m - 1) * TicksPerMinute < mfa.lockedUntil[1] - now
                     /\ m \in 1..lockoutDuration
                ELSE m = 0
       /\ \A p \in Procs :
            (/\ proc[p].pc = "loaded"
             /\ proc[p].op = "validate"
             /\ proc'[p] # proc[p])
            => LET m == response'.minutes
                   until == proc[p].user.lockedUntil
               IN IF response'.error = "Account is temporarily locked"
                  THEN /\ m * TicksPerMinute >= until[1] - now
                       /\ (m - 1) * TicksPerMinute < until[1] - now
                       /\ m \in 1..lockoutDuration
                  ELSE m = 0]_vars

\* less than a whole minute of the lock is left and the 'mfa' step's data
\* says one minute
C32_Witness ==
    /\ response.op = "get-steps"
    /\ response.stepData.isLocked
    /\ response.stepData.lockoutMinutes = 1
    /\ mfa.lockedUntil # Null
    /\ mfa.lockedUntil[1] - now = 1
    /\ TicksPerMinute > 1

\* C33: a session holds one pending secret. A setup for a user not enrolled
\* makes the secret it returns the pending secret of its session, whatever
\* was pending there, and touches no other session. Once a pending secret has
\* been replaced, a verify-setup in that session with a code valid only for
\* the replaced secret is answered 'Invalid verification code' and changes
\* neither profile nor session; one with a code valid for the pending secret goes on to
\* enableMfa, whose write stores that secret, encrypted, with enabled = true.
C33_SecondStartReplaces ==
    [][\A p \in Procs :
        LET r == proc[p]
            pending == session[r.sess]
        IN /\ (/\ r.pc = "loaded" /\ r.op = "setup"
               /\ ~r.user.enabled
               /\ proc'[p] # r)
              => /\ response'.valid
                 /\ response'.secret \in Secrets
                 /\ session' = [session EXCEPT ![r.sess] = response'.secret]
           /\ (/\ r.pc = "loaded" /\ r.op = "verify-setup"
               /\ proc'[p] # r
               /\ pending # NoSecret
               /\ \E x \in Secrets :
                    /\ <<r.sess, x>> \in superseded
                    /\ AuthenticatorVerify(r.code, x, now))
              => IF AuthenticatorVerify(r.code, pending, now)
                 THEN /\ proc'[p].pc = "em_update"
                      /\ decrypt(proc'[p].blob, appSecret) = pending
                 ELSE /\ response'.error = "Invalid verification code"
                      /\ ~response'.valid
                      /\ mfa' = mfa
                      /\ session' = session
           /\ (r.pc = "em_update" /\ proc'[p].pc = "em_clear")
              => /\ mfa'.enabled
                 /\ mfa'.secret = r.blob]_vars

\* enrollment has just been completed with the second secret of a session
\* whose first pending secret was replaced
C33_Witness ==
    \E p \in Procs :
        /\ proc[p].pc = "em_clear"
        /\ mfa.enabled
        /\ session[proc[p].sess] # NoSecret
        /\ decrypt(mfa.secret, appSecret) = session[proc[p].sess]
        /\ \E x \in Secrets \ {session[proc[p].sess]} :
             superseded = {<<proc[p].sess, x>>}

\* C34: a failure that read the counter before a success reset it does not
\* bring the old count or a lock back. When recordFailure writes after a reset
\* that happened since it read, the count it writes is 1 (the failures since
\* the reset) and it sets no lock.
C34_ResetNotUndone ==
    [][\A p \in Procs :
        (/\ proc[p].pc = "rf_update"
         /\ proc'[p] = Idle
         /\ response'.error # "MFA verification failed"
         /\ resetRaced)
        => /\ mfa'.failedAttempts = atomicFA'
           /\ (mfa'.lockedUntil # Null => atomicFA' >= maxFailedAttempts)]_vars

\* C35: with one request at a time, a lock that has expired (now >=
\* lockedUntil) and that nothing has cleared still has failedAttempts >=
\* maxFailedAttempts stored. A step is then evaluated again, and if it fails,
\* recordFailure counts one more (beyond maxFailedAttempts) and locks again
\* for a full lockoutDuration from that moment; its write stores that count
\* and lock.
C35_OneAttemptAfterExpiry ==
    [][\A p \in Procs :
        LET r == proc[p]
            expired == /\ mfa.lockedUntil # Null
                       /\ now >= mfa.lockedUntil[1]
        IN /\ expired => mfa.failedAttempts >= maxFailedAttempts
           /\ (/\ expired
               /\ r.pc = "loaded" /\ r.op = "validate" /\ r.code # NoCode
               /\ r.user = Snapshot(mfa, "validate")
               /\ proc'[p] # r)
              => response'.error # "Account is temporarily locked"
           /\ (/\ expired
               /\ r.pc = "rf_find"
               /\ proc'[p].pc = "rf_update")
              => /\ proc'[p].rf.attempts = mfa.failedAttempts + 1
                 /\ proc'[p].rf.attempts > maxFailedAttempts
                 /\ proc'[p].rf.locked
                 /\ proc'[p].rf.lockedUntil
                      = Date(now + lockoutDuration * TicksPerMinute)
           /\ (/\ expired
               /\ r.pc = "rf_update"
               /\ proc'[p] = Idle
               /\ response'.error # "MFA verification failed")
              => /\ mfa'.failedAttempts = r.rf.attempts
                 /\ mfa'.lockedUntil = r.rf.lockedUntil]_vars

\* the first failure after the lock expired has been recorded: the counter is
\* beyond maxFailedAttempts and the user is locked for lockoutDuration more
C35_Witness ==
    /\ response.op = "validate"
    /\ response.rf.locked
    /\ response.rf.attempts = maxFailedAttempts + 1
    /\ mfa.failedAttempts = maxFailedAttempts + 1
    /\ atomicFA = maxFailedAttempts + 1
    /\ mfa.lockedUntil = Date(now + lockoutDuration * TicksPerMinute)

\* C36: once the profile is enabled, the stored secret and backup-code hashes
\* change only in the write of disable, of regenerateBackupCodes or of a
\* backup-code use, or by the administrator's reset; failedAttempts and
\* lockedUntil are not reset by the write of an enrollment either. So the
\* enableMfa of a verify-setup whose session got its pending secret before the
\* profile was enabled leaves an enabled profile as it is.
C36_ActiveSecretKept ==
    [][mfa.enabled =>
        /\ (mfa'.secret # mfa.secret \/ mfa'.backupCodes # mfa.backupCodes)
           => \/ AdminReset
              \/ UserCardDisable
              \/ \E p \in Procs :
                    /\ proc[p].pc \in {"dm_update", "rg_update", "ubc_update"}
                    /\ proc'[p] # proc[p]
        /\ \A p \in Procs :
             (proc[p].pc = "em_update" /\ proc'[p].pc = "em_clear")
             => mfa' = mfa]_vars

\* C37: a login step with a code whose user object is locked is answered
\* 'Account is temporarily locked' at once, whatever the code: the handler
\* ends there, so the stored profile (failedAttempts, lockedUntil, lastUsedAt,
\* backupCodes) is as before, no failure is recorded and no code accepted;
\* and every step answered that way left the profile unchanged.
C37_LockedRejectionWritesNothing ==
    [][\A p \in Procs :
        /\ (/\ proc[p].pc = "loaded"
            /\ proc[p].op = "validate"
            /\ proc[p].code # NoCode
            /\ proc'[p] # proc[p]
            /\ isLocked(proc[p].user, now).locked)
           => /\ proc'[p] = Idle
              /\ response'.error = "Account is temporarily locked"
              /\ ~response'.valid
        /\ (proc'[p] # proc[p] /\ response'.error = "Account is temporarily locked")
           => /\ proc'[p] = Idle
              /\ mfa' = mfa
              /\ accepts' = accepts
              /\ atomicFA' = atomicFA]_vars

\* a locked user has submitted a backup code whose hash is stored, and has
\* been told that the account is locked
C37_Witness ==
    /\ response.op = "validate"
    /\ response.error = "Account is temporarily locked"
    /\ Len(response.code) = 3
    /\ verifyBackupCode(CleanBackupCode(response.code), mfa.backupCodes) # 0
    /\ mfa.lockedUntil # Null
    /\ now < mfa.lockedUntil[1]
    /\ mfa.failedAttempts >= maxFailedAttempts
    /\ mfa.lastUsedAt = Null

\* C38: in every reachable state a profile with enabled = false stores no
\* backup-code hashes.
C38_DisabledHasNoCodes ==
    ~mfa.enabled => mfa.backupCodes = <<>>

\* C39: onAuthValidateStep fails closed. A 'mfa' or 'mfa-backup' step is
\* answered valid only by the write of recordSuccess, with no error; that
\* write is reached only in the same call from a TOTP code that matches the
\* decrypted secret of a user object that is not locked, or from the write of
\* useBackupCode, which is reached only from a lookup that found the hash of
\* the code among the stored hashes and which stores the list without it, for
\* a user object that is not locked. A missing code, a missing user, an empty
\* or undecryptable secret and a failing store call are answered invalid. A
\* step of another kind changes nothing.
C39_FailClosed ==
    [][/\ \A p \in Procs :
            LET r == proc[p]
                changed == proc'[p] # r
            IN /\ (r.op = "validate" /\ changed /\ response'.valid)
                  => /\ r.pc = "rs_update"
                     /\ response'.error = ""
               /\ (r.op = "validate" /\ changed /\ proc'[p].pc = "rs_update")
                  => \/ /\ r.pc = "loaded"
                        /\ r.step = "mfa"
                        /\ ~isLocked(r.user, now).locked
                        /\ r.user.secret # <<>>
                        /\ AuthenticatorVerify(r.code,
                               decrypt(r.user.secret, appSecret), now)
                     \/ /\ r.pc = "ubc_update"
                        /\ r.step = "mfa-backup"
                        /\ mfa'.backupCodes = r.hashes
                        /\ verifyBackupCode(r.code, mfa'.backupCodes) = 0
               /\ (r.op = "validate" /\ changed /\ proc'[p].pc = "ubc_update")
                  => /\ r.pc = "ubc_find"
                     /\ verifyBackupCode(r.code, mfa.backupCodes) # 0
               /\ (r.op = "validate" /\ changed /\ proc'[p].pc = "ubc_find")
                  => /\ r.pc = "loaded"
                     /\ r.step = "mfa-backup"
                     /\ r.code # NoCode
                     /\ ~isLocked(r.user, now).locked
               /\ (/\ r.op = "validate" /\ r.pc = "loaded" /\ changed
                   /\ \/ r.code = NoCode
                      \/ r.step = "mfa" /\ decrypt(r.user.secret, appSecret) = NoSecret)
                  => proc'[p] = Idle /\ ~response'.valid /\ mfa' = mfa
               /\ (r.op = "validate" /\ changed
                     /\ response'.error = "MFA verification failed")
                  => proc'[p] = Idle /\ ~response'.valid /\ mfa' = mfa
       /\ response'.error = "User not found" => ~response'.valid /\ mfa' = mfa
       /\ response'.op = "other-step"
          => mfa' = mfa /\ proc' = proc /\ pendingAuth' = pendingAuth]_vars

\* a login step has been answered valid after a backup code was consumed
C39_Witness ==
    /\ response.op = "validate"
    /\ response.valid
    /\ mfa.enabled
    /\ mfa.lastUsedAt # Null
    /\ Len(mfa.backupCodes) = backupCodeCount - 1
    /\ mfa.failedAttempts = 0
    /\ mfa.lockedUntil = Null

\* C40: between two resets of failedAttempts at most maxFailedAttempts wrong
\* codes are evaluated, however the login steps overlap. Every wrong code
\* that is evaluated is recorded by one write of recordFailure, so, from
\* enrollment to the first successful step (lastUsedAt is still unset: the
\* counter has not been reset since enrollment wrote 0), the failures
\* recorded are at most maxFailedAttempts. Meant for overlapping steps while
\* no lock runs out (the clock of SpecVerify stands still).
C40_GuessesBounded ==
    mfa.lastUsedAt = Null => atomicFA <= maxFailedAttempts

====
